---- MODULE Spec2Model ----
(***************************************************************************)
(* Web Push message encryption and VAPID authentication                    *)
(* (src/src/lib/notifications/push.ts).                                    *)
(* and the subscription store behind POST and DELETE                       *)
(* (src/src/app/api/notifications/subscribe/route.ts).                     *)
(*                                                                         *)
(* Text is a sequence of code points, a Buffer a sequence of bytes 0..255. *)
(* The primitives of node:crypto (SHA-256 HMAC, P-256, AES-128-GCM, ECDSA) *)
(* are modelled by small deterministic functions with the library's        *)
(* interface: the same lengths, the same failure cases, and the algebra    *)
(* the protocol relies on (Diffie-Hellman commutes, decryption inverts     *)
(* encryption under the same key and IV, a signature verifies under the    *)
(* matching public key).                                                   *)
(***************************************************************************)
EXTENDS Integers, Sequences, FiniteSets, TLC

VARIABLES env, clock, rng, calls, network, store, requests, derived

vars == <<env, clock, rng, calls, network, store, requests, derived>>

----------------------------------------------------------------------------
(* Buffers and text *)

Range(s) == {s[i] : i \in 1..Len(s)}

IsBytes(s) == \A i \in 1..Len(s) : s[i] \in 0..255

\* Buffer.subarray(start) with a 0-based start, clamped as Buffer does
Subarray(buf, start) ==
  IF start >= Len(buf) THEN <<>> ELSE SubSeq(buf, start + 1, Len(buf))

\* Buffer.subarray(0, end)
SubarrayTo(buf, end) ==
  IF end >= Len(buf) THEN buf ELSE SubSeq(buf, 1, end)

Min(S) == CHOOSE x \in S : \A y \in S : x <= y

Max(S) == CHOOSE x \in S : \A y \in S : x >= y

RECURSIVE Concat(_)
\* Buffer.concat(list)
Concat(list) ==
  IF Len(list) = 0 THEN <<>> ELSE Head(list) \o Concat(Tail(list))

\* UTF-8 encoding of one code point (up to the 3-byte forms)
Utf8Char(c) ==
  IF c < 128 THEN <<c>>
  ELSE IF c < 2048 THEN <<192 + (c \div 64), 128 + (c % 64)>>
  ELSE <<224 + (c \div 4096), 128 + ((c \div 64) % 64), 128 + (c % 64)>>

RECURSIVE Utf8Range(_, _, _)
\* the UTF-8 bytes of str[lo..hi], by halving
Utf8Range(str, lo, hi) ==
  IF lo > hi THEN <<>>
  ELSE IF lo = hi THEN Utf8Char(str[lo])
  ELSE Utf8Range(str, lo, (lo + hi) \div 2) \o Utf8Range(str, ((lo + hi) \div 2) + 1, hi)

\* Buffer.from(string): the UTF-8 bytes of the string
BufferFromString(str) == Utf8Range(str, 1, Len(str))

HexVal(c) == IF c >= 97 THEN c - 87 ELSE c - 48

\* Buffer.from(string, "hex")
BufferFromHex(str) ==
  [k \in 1..(Len(str) \div 2) |-> HexVal(str[2 * k - 1]) * 16 + HexVal(str[2 * k])]

RECURSIVE Decimal(_)
\* String(n) for a non-negative integer
Decimal(n) ==
  IF n < 10 THEN <<48 + n>> ELSE Decimal(n \div 10) \o <<48 + (n % 10)>>

----------------------------------------------------------------------------
(* base64url *)

B64Char(v) ==
  IF v < 26 THEN 65 + v
  ELSE IF v < 52 THEN 71 + v
  ELSE IF v < 62 THEN v - 4
  ELSE IF v = 62 THEN 45 ELSE 95

\* the value of a character of the base64 or base64url alphabet, -1 otherwise
B64Val(c) ==
  IF c >= 65 /\ c <= 90 THEN c - 65
  ELSE IF c >= 97 /\ c <= 122 THEN c - 71
  ELSE IF c >= 48 /\ c <= 57 THEN c + 4
  ELSE IF c = 45 \/ c = 43 THEN 62
  ELSE IF c = 95 \/ c = 47 THEN 63
  ELSE 0 - 1

\* the characters of the group of up to three bytes that starts at index i
B64Enc(buf, i) ==
       LET rem == Len(buf) - i + 1
           b2  == IF rem >= 2 THEN buf[i + 1] ELSE 0
           b3  == IF rem >= 3 THEN buf[i + 2] ELSE 0
           n   == buf[i] * 65536 + b2 * 256 + b3
           c1  == B64Char(n \div 262144)
           c2  == B64Char((n \div 4096) % 64)
           c3  == B64Char((n \div 64) % 64)
           c4  == B64Char(n % 64)
       IN  IF rem = 1 THEN <<c1, c2>>
           ELSE IF rem = 2 THEN <<c1, c2, c3>>
           ELSE <<c1, c2, c3, c4>>

RECURSIVE B64EncRange(_, _, _)
\* the characters of groups lo..hi (group k starts at index 3k + 1), by halving
B64EncRange(buf, lo, hi) ==
  IF lo > hi THEN <<>>
  ELSE IF lo = hi THEN B64Enc(buf, 3 * lo + 1)
  ELSE B64EncRange(buf, lo, (lo + hi) \div 2)
       \o B64EncRange(buf, ((lo + hi) \div 2) + 1, hi)

\* buf.toString("base64url"): no padding
ToBase64url(buf) == B64EncRange(buf, 0, ((Len(buf) + 2) \div 3) - 1)

\* base64url(input: string | Buffer); text reaches it already UTF-8 encoded
base64url(buf) == ToBase64url(buf)

RECURSIVE SextetRange(_, _, _)
SextetRange(str, lo, hi) ==
  IF lo > hi THEN <<>>
  ELSE IF lo = hi THEN (IF B64Val(str[lo]) < 0 THEN <<>> ELSE <<B64Val(str[lo])>>)
  ELSE SextetRange(str, lo, (lo + hi) \div 2)
       \o SextetRange(str, ((lo + hi) \div 2) + 1, hi)

\* the decoder skips characters outside the alphabet and stops at "="
B64Sextets(str) ==
  LET pads == {i \in 1..Len(str) : str[i] = 61}
      stop == IF pads = {} THEN Len(str) ELSE Min(pads) - 1
  IN  SextetRange(str, 1, stop)

\* the bytes of the group of up to four sextets that starts at index i
B64Dec(sx, i) ==
  LET rem == Len(sx) - i + 1
  IN  IF rem <= 1 THEN <<>>
      ELSE LET s3 == IF rem >= 3 THEN sx[i + 2] ELSE 0
               s4 == IF rem >= 4 THEN sx[i + 3] ELSE 0
               n  == sx[i] * 262144 + sx[i + 1] * 4096 + s3 * 64 + s4
               b1 == n \div 65536
               b2 == (n \div 256) % 256
               b3 == n % 256
           IN  IF rem = 2 THEN <<b1>>
               ELSE IF rem = 3 THEN <<b1, b2>>
               ELSE <<b1, b2, b3>>

RECURSIVE B64DecRange(_, _, _)
\* the bytes of groups lo..hi (group k starts at sextet 4k + 1), by halving
B64DecRange(sx, lo, hi) ==
  IF lo > hi THEN <<>>
  ELSE IF lo = hi THEN B64Dec(sx, 4 * lo + 1)
  ELSE B64DecRange(sx, lo, (lo + hi) \div 2)
       \o B64DecRange(sx, ((lo + hi) \div 2) + 1, hi)

\* Buffer.from(input, "base64url")
base64urlDecode(input) ==
  LET sx == B64Sextets(input)
  IN  B64DecRange(sx, 0, ((Len(sx) + 3) \div 4) - 1)

----------------------------------------------------------------------------
(* new URL(input): scheme, authority and the normalisations of the WHATWG   *)
(* parser that decide .protocol and .host                                   *)

Lower(c) == IF c >= 65 /\ c <= 90 THEN c + 32 ELSE c

LowerAll(str) == [i \in 1..Len(str) |-> Lower(str[i])]

IsAlpha(c) == (c >= 65 /\ c <= 90) \/ (c >= 97 /\ c <= 122)

IsDigit(c) == c >= 48 /\ c <= 57

\* the first index >= from holding a character of set, Len(str) + 1 if none
FirstOf(str, set, from) ==
  LET hits == {i \in from..Len(str) : str[i] \in set}
  IN  IF hits = {} THEN Len(str) + 1 ELSE Min(hits)

\* the first index >= from that holds neither "/" nor "\"
SkipSlashes(str, from) ==
  LET hits == {i \in from..Len(str) : str[i] \notin {47, 92}}
  IN  IF hits = {} THEN Len(str) + 1 ELSE Min(hits)

\* the last index holding character c, 0 if none
LastOf(str, c) ==
  LET hits == {i \in 1..Len(str) : str[i] = c}
  IN  IF hits = {} THEN 0 ELSE Max(hits)

RECURSIVE ParseInt(_, _, _)
ParseInt(str, i, acc) ==
  IF i > Len(str) THEN acc ELSE ParseInt(str, i + 1, acc * 10 + (str[i] - 48))

SchemeHttps == <<104, 116, 116, 112, 115>>   \* https
SchemeHttp == <<104, 116, 116, 112>>         \* http

IsSpecialScheme(scheme) == scheme = SchemeHttps \/ scheme = SchemeHttp

DefaultPort(scheme) == IF scheme = SchemeHttps THEN 443 ELSE 80

InvalidUrl == [ok |-> FALSE, protocol |-> <<>>, host |-> <<>>, rest |-> <<>>]

\* characters a host may not contain: space " # / < > ? @ [ \ ] ^ | % :
ForbiddenHostChars == {32, 34, 35, 37, 47, 58, 60, 62, 63, 64, 91, 92, 93, 94, 124}

ParseAuthority(scheme, auth) ==
  LET at       == LastOf(auth, 64)
      hostport == SubSeq(auth, at + 1, Len(auth))
      colon    == LastOf(hostport, 58)
      hostname == LowerAll(IF colon = 0 THEN hostport
                           ELSE SubSeq(hostport, 1, colon - 1))
      portStr  == IF colon = 0 THEN <<>>
                  ELSE SubSeq(hostport, colon + 1, Len(hostport))
      portOk   == /\ \A i \in 1..Len(portStr) : IsDigit(portStr[i])
                  /\ Len(portStr) <= 5
                  /\ ParseInt(portStr, 1, 0) <= 65535
      port     == ParseInt(portStr, 1, 0)
      shown    == IF Len(portStr) = 0 \/ port = DefaultPort(scheme) THEN <<>>
                  ELSE <<58>> \o Decimal(port)
  IN  IF Len(hostname) = 0
         \/ (\E i \in 1..Len(hostname) : hostname[i] \in ForbiddenHostChars)
         \/ ~portOk
      THEN InvalidUrl
      ELSE [ok |-> TRUE, protocol |-> scheme \o <<58>>, host |-> hostname \o shown,
            rest |-> <<>>]

\* new URL(input) as far as .protocol and .host (rest is what follows the
\* authority: path, query and fragment); ok = FALSE when it throws
ParseUrl(input) ==
  LET colon  == FirstOf(input, {58}, 1)
      scheme == LowerAll(SubSeq(input, 1, colon - 1))
      schemeOk == /\ colon <= Len(input)
                  /\ colon > 1
                  /\ IsAlpha(input[1])
                  /\ \A i \in 1..(colon - 1) :
                       IsAlpha(input[i]) \/ IsDigit(input[i]) \/ input[i] \in {43, 45, 46}
      \* a special scheme is followed by any number of slashes
      start  == SkipSlashes(input, colon + 1)
      stop   == FirstOf(input, {47, 92, 63, 35}, start)
  IN  IF ~schemeOk THEN InvalidUrl
      ELSE IF IsSpecialScheme(scheme)
        THEN [ParseAuthority(scheme, SubSeq(input, start, stop - 1))
                EXCEPT !.rest = SubSeq(input, stop, Len(input))]
      ELSE IF colon + 2 <= Len(input) /\ input[colon + 1] = 47 /\ input[colon + 2] = 47
        THEN LET s2 == colon + 3
                 e2 == FirstOf(input, {47, 63, 35}, s2)
             IN  IF e2 = s2
                   THEN [ok |-> TRUE, protocol |-> scheme \o <<58>>, host |-> <<>>,
                         rest |-> SubSeq(input, e2, Len(input))]
                 ELSE [ParseAuthority(scheme, SubSeq(input, s2, e2 - 1))
                         EXCEPT !.rest = SubSeq(input, e2, Len(input))]
      ELSE [ok |-> TRUE, protocol |-> scheme \o <<58>>, host |-> <<>>,
            rest |-> SubSeq(input, colon + 1, Len(input))]

----------------------------------------------------------------------------
(* JSON.stringify of an object whose values are strings or numbers          *)

HexDigit(v) == IF v < 10 THEN 48 + v ELSE 87 + v

JsonEscapeChar(c) ==
  IF c = 34 THEN <<92, 34>>
  ELSE IF c = 92 THEN <<92, 92>>
  ELSE IF c = 8 THEN <<92, 98>>
  ELSE IF c = 9 THEN <<92, 116>>
  ELSE IF c = 10 THEN <<92, 110>>
  ELSE IF c = 12 THEN <<92, 102>>
  ELSE IF c = 13 THEN <<92, 114>>
  ELSE IF c < 32 THEN <<92, 117, 48, 48, HexDigit(c \div 16), HexDigit(c % 16)>>
  ELSE <<c>>

RECURSIVE JsonEscapeRange(_, _, _)
JsonEscapeRange(str, lo, hi) ==
  IF lo > hi THEN <<>>
  ELSE IF lo = hi THEN JsonEscapeChar(str[lo])
  ELSE JsonEscapeRange(str, lo, (lo + hi) \div 2)
       \o JsonEscapeRange(str, ((lo + hi) \div 2) + 1, hi)

JsonQuote(str) == <<34>> \o JsonEscapeRange(str, 1, Len(str)) \o <<34>>

\* a value is [num |-> n] or [str |-> s]
JsonValue(v) ==
  IF "num" \in DOMAIN v THEN Decimal(v.num) ELSE JsonQuote(v.str)

RECURSIVE JsonMembers(_, _)
\* obj is the sequence of the object's own properties <<key, value>>, in
\* insertion order
JsonMembers(obj, i) ==
  IF i > Len(obj) THEN <<>>
  ELSE (IF i > 1 THEN <<44>> ELSE <<>>)
       \o JsonQuote(obj[i][1]) \o <<58>> \o JsonValue(obj[i][2])
       \o JsonMembers(obj, i + 1)

JsonStringify(obj) == <<123>> \o JsonMembers(obj, 1) \o <<125>>

----------------------------------------------------------------------------
(* node:crypto.  Digests are a small rolling hash; the curve is the group   *)
(* generated by 6 modulo the prime 251 (order 250); a point is encoded as   *)
(* 0x04 || X(32) || Y(32) and a scalar or coordinate as 32 bytes.           *)

RECURSIVE DigestRange(_, _, _)
\* the position-weighted sum of msg[lo..hi], by halving
DigestRange(msg, lo, hi) ==
  IF lo > hi THEN 0
  ELSE IF lo = hi THEN ((msg[lo] + 1) * ((lo * lo * 31 + lo * 17 + 1) % 65521)) % 65521
  ELSE (DigestRange(msg, lo, (lo + hi) \div 2)
        + DigestRange(msg, ((lo + hi) \div 2) + 1, hi)) % 65521

\* a position-weighted checksum standing for a digest
Digest(msg) == (DigestRange(msg, 1, Len(msg)) + Len(msg) * 131 + 7) % 65521

\* crypto.createHmac("sha256", key).update(msg).digest(): 32 bytes
HmacSha256(key, msg) ==
  LET h == (Digest(key) * 257 + Digest(msg) * 3 + 11) % 65521
  IN  [i \in 1..32 |-> (h * i + (h \div 256) + i) % 256]

RECURSIVE PowMod(_, _)
PowMod(b, e) ==
  IF e = 0 THEN 1
  ELSE LET h == PowMod(b, e \div 2)
       IN  IF e % 2 = 0 THEN (h * h) % 251 ELSE (h * h * b) % 251

PointX(v) == [i \in 1..32 |-> (v * i) % 251]

PointY(v) == [i \in 1..32 |-> (v * v + 3 * i) % 251]

\* the uncompressed encoding of the group element v
EncodePoint(v) == <<4>> \o PointX(v) \o PointY(v)

\* an encoded point the library accepts: uncompressed and on the curve
IsPoint(bytes) ==
  /\ Len(bytes) = 65
  /\ bytes[1] = 4
  /\ bytes[2] \in 1..250
  /\ bytes = EncodePoint(bytes[2])

PointValue(bytes) == bytes[2]

\* the scalar an octet string stands for
ScalarOf(octets) == 1 + (Digest(octets) % 249)

PublicOf(d) == PowMod(6, d)

\* the big-endian 32-byte form of a number below 256
UInt256(n) == [i \in 1..32 |-> IF i = 32 THEN n ELSE 0]

\* the AlgorithmIdentifier and BIT STRING header of a P-256
\* SubjectPublicKeyInfo: 3059301306072a8648ce3d020106082a8648ce3d030107034200
SpkiHeaderHex ==
  <<51, 48, 53, 57, 51, 48, 49, 51, 48, 54, 48, 55, 50, 97, 56, 54, 52, 56,
    99, 101, 51, 100, 48, 50, 48, 49, 48, 54, 48, 56, 50, 97, 56, 54, 52, 56,
    99, 101, 51, 100, 48, 51, 48, 49, 48, 55, 48, 51, 52, 50, 48, 48>>

\* crypto.randomBytes(size), from the generator's draw
randomBytes(size, draw) == [i \in 1..size |-> (draw * 37 + i * 11) % 256]

\* crypto.generateKeyPairSync("ec", {namedCurve: "prime256v1"})
generateKeyPairSync(draw) ==
  LET d == 1 + (draw % 249)
  IN  [privateKey |-> d, publicKey |-> PublicOf(d)]

\* KeyObject.export({type: "spki", format: "der"}) of a public key: 91 bytes
ExportSpki(publicKey) == BufferFromHex(SpkiHeaderHex) \o EncodePoint(publicKey)

\* any 65 bytes that start with 0x04 taken for a point
createPublicKeyUnchecked(der) ==
  LET point == SubSeq(der, 27, 91)
  IN  IF Len(der) >= 91
         /\ SubSeq(der, 1, 26) = BufferFromHex(SpkiHeaderHex)
         /\ point[1] = 4
      THEN [ok |-> TRUE, publicKey |-> 1 + (point[2] % 250)]
      ELSE [ok |-> FALSE, publicKey |-> 0]

\* crypto.createPublicKey({key, format: "der", type: "spki"}); trailing
\* bytes after the structure are not looked at
createPublicKey(der) ==
  LET point == SubSeq(der, 27, 91)
  IN  IF Len(der) >= 91
         /\ SubSeq(der, 1, 26) = BufferFromHex(SpkiHeaderHex)
         /\ IsPoint(point)
      THEN [ok |-> TRUE, publicKey |-> PointValue(point)]
      ELSE [ok |-> FALSE, publicKey |-> 0]

\* crypto.diffieHellman({publicKey, privateKey}): the 32-byte shared secret
diffieHellman(publicKey, privateKey) == PointX(PowMod(publicKey, privateKey))

\* the OID of prime256v1: 06 08 2a 86 48 ce 3d 03 01 07
Prime256v1Oid == <<6, 8, 42, 134, 72, 206, 61, 3, 1, 7>>

NoKey == [ok |-> FALSE, d |-> 0, publicKey |-> 0]

\* crypto.createPrivateKey({key, format: "der", type: "sec1"}):
\* ECPrivateKey ::= SEQUENCE { version INTEGER (1), privateKey OCTET STRING,
\*   parameters [0] OPTIONAL, publicKey [1] BIT STRING OPTIONAL }
createPrivateKey(der) ==
  IF Len(der) < 2 \/ der[1] # 48 \/ der[2] >= 128 \/ Len(der) < 2 + der[2]
  THEN NoKey
  ELSE
    LET c    == SubSeq(der, 3, 2 + der[2])
        n    == Len(c)
        klen == IF n >= 5 THEN c[5] ELSE 0
        p1   == 6 + klen          \* what follows the OCTET STRING
        hasParams == p1 + 1 <= n /\ c[p1] = 160
        p2   == IF hasParams THEN p1 + 2 + c[p1 + 1] ELSE p1
        paramsOk == ~hasParams \/
                    (p2 - 1 <= n /\ SubSeq(c, p1 + 2, p2 - 1) = Prime256v1Oid)
        hasPub == p2 + 1 <= n /\ c[p2] = 161
        p3   == IF hasPub THEN p2 + 2 + c[p2 + 1] ELSE p2
        bits == SubSeq(c, p2 + 2, p3 - 1)     \* 03 len 00 point
        pubOk == ~hasPub \/
                 (/\ p3 - 1 <= n
                  /\ Len(bits) >= 3
                  /\ bits[1] = 3
                  /\ bits[2] = Len(bits) - 2
                  /\ bits[3] = 0
                  /\ IsPoint(SubSeq(bits, 4, Len(bits))))
        d == ScalarOf(SubSeq(c, 6, 5 + klen))
    IN  IF /\ n >= 5
           /\ SubSeq(c, 1, 3) = <<2, 1, 1>>
           /\ c[4] = 4
           /\ klen < 128
           /\ 5 + klen <= n
           /\ paramsOk
           /\ pubOk
           /\ p3 = n + 1
        THEN [ok |-> TRUE, d |-> d,
              publicKey |-> IF hasPub THEN PointValue(SubSeq(bits, 4, Len(bits)))
                            ELSE PublicOf(d)]
        ELSE NoKey

\* the smallest big-endian two's-complement form of a number below 256
DerInteger(n) == IF n >= 128 THEN <<2, 2, 0, n>> ELSE <<2, 1, n>>

\* crypto.createSign("SHA256").update(msg).sign({key, dsaEncoding}), with
\* the per-signature secret k drawn from the generator
EcdsaSign(key, msg, draw, dsaEncoding) ==
  LET k == 1 + (draw % 249)
      r == PowMod(6, k)
      s == (k + (Digest(msg) % 250) * key.d) % 250
  IN  IF dsaEncoding = "ieee-p1363" THEN UInt256(r) \o UInt256(s)
      ELSE <<48, Len(DerInteger(r)) + Len(DerInteger(s))>>
           \o DerInteger(r) \o DerInteger(s)

\* verification of a raw r || s signature under a public key
EcdsaVerify(publicKey, msg, sig) ==
  /\ Len(sig) = 64
  /\ sig = UInt256(sig[32]) \o UInt256(sig[64])
  /\ PowMod(6, sig[64]) = (sig[32] * PowMod(publicKey, Digest(msg) % 250)) % 251

\* byte i of the key stream of the cipher state h
KeyStream(h, i) == ((h % 251) * i + (h \div 256) + i) % 256

\* cipher.update(plaintext) of crypto.createCipheriv("aes-128-gcm", key, iv)
CipherUpdate(key, iv, plaintext) ==
  LET h == Digest(key \o iv)
  IN  [i \in 1..Len(plaintext) |-> (plaintext[i] + KeyStream(h, i)) % 256]

\* cipher.final(): GCM has nothing left to emit
CipherFinal == <<>>

\* cipher.getAuthTag(): 16 bytes over the ciphertext (no additional data)
GetAuthTag(key, iv, ciphertext) ==
  LET h == (Digest(key \o iv) * 263 + Digest(ciphertext) * 5 + 1) % 65521
  IN  [i \in 1..16 |-> (h * i + (h \div 256) + 3 * i) % 256]

\* decipher.update of crypto.createDecipheriv("aes-128-gcm", key, iv)
DecipherUpdate(key, iv, ciphertext) ==
  LET h == Digest(key \o iv)
  IN  [i \in 1..Len(ciphertext) |-> (ciphertext[i] + 256 - KeyStream(h, i)) % 256]

----------------------------------------------------------------------------
(* sendPushNotification, push.ts lines 29-133: the expressions of its body  *)

\* only an unset variable counts as absent
FalsyUnset(v) == v = <<>>

\* !value for an environment variable: <<>> is undefined, <<str>> is set
Falsy(v) == v = <<>> \/ v[1] = <<>>

\* "http://localhost:3000"
DefaultAppUrl ==
  <<104, 116, 116, 112, 58, 47, 47, 108, 111, 99, 97, 108, 104, 111, 115, 116,
    58, 51, 48, 48, 48>>

\* const body = JSON.stringify(payload)
body(payload) == JsonStringify(payload)

\* base64url(JSON.stringify({ typ: "JWT", alg: "ES256" }))
header ==
  base64url(BufferFromString(JsonStringify(
    << <<(<<116, 121, 112>>), [str |-> <<74, 87, 84>>]>>,
       <<(<<97, 108, 103>>), [str |-> <<69, 83, 50, 53, 54>>]>> >>)))

\* the clock left in milliseconds
nowMillis(dateNow) == dateNow

\* Math.floor(Date.now() / 1000)
now(dateNow) == dateNow \div 1000

\* the audience taken from the whole endpoint URL
audWithPath(endpoint) ==
  endpoint.protocol \o <<47, 47>> \o endpoint.host \o endpoint.rest

\* `${endpoint.protocol}//${endpoint.host}`
aud(endpoint) == endpoint.protocol \o <<47, 47>> \o endpoint.host

\* now + 43200
exp(nowSec) == nowSec + 43200

\* the application URL itself given as the subject
subAppUrl(appUrl) == appUrl.protocol \o <<47, 47>> \o appUrl.host

\* `mailto:admin@${new URL(appUrl).host}`
sub(appUrl) ==
  <<109, 97, 105, 108, 116, 111, 58, 97, 100, 109, 105, 110, 64>> \o appUrl.host

\* base64url(JSON.stringify({ aud, exp, sub }))
claims(audience, expiry, subject) ==
  base64url(BufferFromString(JsonStringify(
    << <<(<<97, 117, 100>>), [str |-> audience]>>,
       <<(<<101, 120, 112>>), [num |-> expiry]>>,
       <<(<<115, 117, 98>>), [str |-> subject]>> >>)))

\* `${header}.${claims}`
unsignedToken(hdr, clm) == hdr \o <<46>> \o clm

\* the buffer handed to createPrivateKey:
\* "3077020101042020" || private key || "a00a06082a8648ce3d030107a14403420004"
\* || public key
vapidKeyDer(vapidPrivateKey, vapidPublicKey) ==
  Concat(<<
    BufferFromHex(<<51, 48, 55, 55, 48, 50, 48, 49, 48, 49, 48, 52, 50, 48, 50, 48>>),
    base64urlDecode(vapidPrivateKey),
    BufferFromHex(<<97, 48, 48, 97, 48, 54, 48, 56, 50, 97, 56, 54, 52, 56, 99, 101,
                    51, 100, 48, 51, 48, 49, 48, 55, 97, 49, 52, 52, 48, 51, 52, 50,
                    48, 48, 48, 52>>),
    base64urlDecode(vapidPublicKey) >>)

\* sign.update(unsignedToken); sign.sign({ key, dsaEncoding: "ieee-p1363" })
\* the signature in the DER encoding that sign() produces by default
signatureDer(key, unsigned, draw) ==
  EcdsaSign(key, BufferFromString(unsigned), draw, "der")

signature(key, unsigned, draw) ==
  EcdsaSign(key, BufferFromString(unsigned), draw, "ieee-p1363")

\* `${unsignedToken}.${base64url(signature)}`
token(unsigned, sig) == unsigned \o <<46>> \o base64url(sig)

userPublicKey(subscription) == base64urlDecode(subscription.keys.p256dh)

\* the auth secret read from the wrong field of the subscription
userAuthFromEndpoint(subscription) == base64urlDecode(subscription.endpoint)

userAuth(subscription) == base64urlDecode(subscription.keys.auth)

\* a salt drawn once and kept for every call
saltCached(draw) == randomBytes(16, 0)

\* crypto.randomBytes(16)
salt(draw) == randomBytes(16, draw)

\* publicKey.export({ type: "spki", format: "der" }).subarray(27)
localPublicKey(localKeys) == Subarray(ExportSpki(localKeys.publicKey), 27)

\* createPublicKey({ key: Buffer.concat([<SPKI header>, userPublicKey]), ... })
userKeyObject(userPub) ==
  createPublicKey(Concat(<<BufferFromHex(SpkiHeaderHex), userPub>>))

sharedSecret(userKey, localKeys) ==
  diffieHellman(userKey.publicKey, localKeys.privateKey)

\* an info string that repeats the subscriber's key in place of the sender's
authInfoSubscriberTwice(userPub, localPub) ==
  Concat(<< BufferFromString(<<87, 101, 98, 80, 117, 115, 104, 58, 32, 105, 110,
                               102, 111, 0>>),
            userPub, userPub >>)

\* Buffer.concat([Buffer.from("WebPush: info\0"), userPublicKey, localPublicKey])
authInfo(userPub, localPub) ==
  Concat(<< BufferFromString(<<87, 101, 98, 80, 117, 115, 104, 58, 32, 105, 110,
                               102, 111, 0>>),
            userPub, localPub >>)

\* an expand round that leaves out the counter byte
hkdfNoCounter(hkdfSalt, ikm, info, length) ==
  LET prk      == HmacSha256(hkdfSalt, ikm)
      infoHmac == HmacSha256(prk, info)
  IN  SubarrayTo(infoHmac, length)

hkdf(hkdfSalt, ikm, info, length) ==
  LET prk      == HmacSha256(hkdfSalt, ikm)
      infoHmac == HmacSha256(prk, Concat(<<info, <<1>>>>))
  IN  SubarrayTo(infoHmac, length)

\* "Content-Encoding: aes128gcm\0"
CekInfo ==
  BufferFromString(<<67, 111, 110, 116, 101, 110, 116, 45, 69, 110, 99, 111, 100,
                     105, 110, 103, 58, 32, 97, 101, 115, 49, 50, 56, 103, 99, 109, 0>>)

\* "Content-Encoding: nonce\0"
NonceInfo ==
  BufferFromString(<<67, 111, 110, 116, 101, 110, 116, 45, 69, 110, 99, 111, 100,
                     105, 110, 103, 58, 32, 110, 111, 110, 99, 101, 0>>)

prk(auth, secret, info) == hkdf(auth, secret, info, 32)

contentKey(msgSalt, key) == hkdf(msgSalt, key, CekInfo, 16)

nonce(msgSalt, key) == hkdf(msgSalt, key, NonceInfo, 12)

\* the payload without its delimiter byte
paddedPayloadNoDelimiter(text) == BufferFromString(text)

\* Buffer.concat([Buffer.from(body), Buffer.from([2])])
paddedPayload(text) == Concat(<<BufferFromString(text), <<2>>>>)

\* Buffer.concat([cipher.update(paddedPayload), cipher.final(), cipher.getAuthTag()])
encrypted(cek, iv, padded) ==
  LET ciphertext == CipherUpdate(cek, iv, padded)
  IN  Concat(<<ciphertext, CipherFinal, GetAuthTag(cek, iv, ciphertext \o CipherFinal)>>)

\* buf.writeUInt32BE(value, 0) on Buffer.alloc(4)
WriteUInt32BE(value) ==
  <<(value \div 16777216) % 256, (value \div 65536) % 256,
    (value \div 256) % 256, value % 256>>

\* the field without the overhead added to it
recordSizeNoOverhead(enc) == WriteUInt32BE(Len(enc))

\* recordSize.writeUInt32BE(encrypted.length + 17 + 1, 0)
recordSize(enc) == WriteUInt32BE(Len(enc) + 17 + 1)

\* the record size written ahead of the salt
encryptedBodySizeFirst(msgSalt, rs, localPub, enc) ==
  Concat(<<rs, msgSalt, <<Len(localPub) % 256>>, localPub, enc>>)

\* Buffer.concat([salt, recordSize, Buffer.from([localPublicKey.length]),
\*                localPublicKey, encrypted])
encryptedBody(msgSalt, rs, localPub, enc) ==
  Concat(<<msgSalt, rs, <<Len(localPub) % 256>>, localPub, enc>>)

\* the key of the header decoded and encoded again as a 65-byte point
fetchRequestReencodedKey(subscription, jwt, vapidPublicKey, bytes) ==
  [ url     |-> subscription.endpoint,
    method  |-> "POST",
    headers |-> [ Authorization |->
                    <<118, 97, 112, 105, 100, 32, 116, 61>> \o jwt
                    \o <<44, 32, 107, 61>>
                    \o base64url(<<4>> \o base64urlDecode(vapidPublicKey)),
                  ContentEncoding |-> "aes128gcm",
                  ContentType |-> "application/octet-stream",
                  TTL |-> <<56, 54, 52, 48, 48>> ],
    body    |-> bytes ]

\* the body sent as base64url text instead of the bytes
fetchRequestEncodedBody(subscription, jwt, vapidPublicKey, bytes) ==
  [ url     |-> subscription.endpoint,
    method  |-> "POST",
    headers |-> [ Authorization |->
                    <<118, 97, 112, 105, 100, 32, 116, 61>> \o jwt
                    \o <<44, 32, 107, 61>> \o vapidPublicKey,
                  ContentEncoding |-> "aes128gcm",
                  ContentType |-> "application/octet-stream",
                  TTL |-> <<56, 54, 52, 48, 48>> ],
    body    |-> base64url(bytes) ]

\* the arguments of fetch(subscription.endpoint, { method, headers, body })
fetchRequest(subscription, jwt, vapidPublicKey, bytes) ==
  [ url     |-> subscription.endpoint,
    method  |-> "POST",
    headers |-> [ Authorization |->
                    <<118, 97, 112, 105, 100, 32, 116, 61>> \o jwt
                    \o <<44, 32, 107, 61>> \o vapidPublicKey,
                  ContentEncoding |-> "aes128gcm",
                  ContentType |-> "application/octet-stream",
                  TTL |-> <<56, 54, 52, 48, 48>> ],
    body    |-> bytes ]

\* "VAPID keys not configured"
KeysNotConfigured ==
  <<86, 65, 80, 73, 68, 32, 107, 101, 121, 115, 32, 110, 111, 116, 32, 99,
    111, 110, 102, 105, 103, 117, 114, 101, 100>>

\* an order in which the token is signed once the record is encrypted
StagesSignLast ==
  << "checkVapidKeys", "stringifyPayload", "parseEndpoint",
     "decodeSubscriptionKeys", "randomSalt", "generateKeyPair",
     "importUserKey", "diffieHellman", "deriveKeys", "encrypt",
     "buildClaims", "importVapidKey", "signToken", "assemble", "fetch" >>

\* the statements of sendPushNotification up to the fetch call, in order
Stages ==
  << "checkVapidKeys", "stringifyPayload", "parseEndpoint", "buildClaims",
     "importVapidKey", "signToken", "decodeSubscriptionKeys", "randomSalt",
     "generateKeyPair", "importUserKey", "diffieHellman", "deriveKeys",
     "encrypt", "assemble", "fetch" >>

StageIndex(name) == CHOOSE i \in 1..Len(Stages) : Stages[i] = name

Nil == <<>>

\* the document pushSubscriptions/{uid} before anything was saved
NoDocument == [exists |-> FALSE, subscriptions |-> <<>>]

\* One invocation from entry to the first await: every local the function
\* computes, the statements it completed, and the error it threw (if any).
\* draw is the state of the random generator when the call starts.
sendPushNotification(e, subscription, payload, dateNow, draw) ==
  LET vapidPublicKey  == e.VAPID_PUBLIC_KEY
      vapidPrivateKey == e.VAPID_PRIVATE_KEY
      appUrl   == IF Falsy(e.NEXT_PUBLIC_APP_URL) THEN DefaultAppUrl
                  ELSE e.NEXT_PUBLIC_APP_URL[1]
      text     == body(payload)
      endpoint == ParseUrl(subscription.endpoint)
      app      == ParseUrl(appUrl)
      nowSec   == now(dateNow)
      audience == aud(endpoint)
      expiry   == exp(nowSec)
      subject  == sub(app)
      clm      == claims(audience, expiry, subject)
      unsigned == unsignedToken(header, clm)
      key      == createPrivateKey(vapidKeyDer(vapidPrivateKey[1], vapidPublicKey[1]))
      sig      == signature(key, unsigned, draw + 1)
      jwt      == token(unsigned, sig)
      userPub  == userPublicKey(subscription)
      auth     == userAuth(subscription)
      msgSalt  == salt(draw + 2)
      localKeys == generateKeyPairSync(draw + 3)
      localPub == localPublicKey(localKeys)
      userKey  == userKeyObject(userPub)
      secret   == sharedSecret(userKey, localKeys)
      info     == authInfo(userPub, localPub)
      prkBytes == prk(auth, secret, info)
      cek      == contentKey(msgSalt, prkBytes)
      iv       == nonce(msgSalt, prkBytes)
      padded   == paddedPayload(text)
      enc      == encrypted(cek, iv, padded)
      rs       == recordSize(enc)
      bytes    == encryptedBody(msgSalt, rs, localPub, enc)
      \* the statement that throws, 0 if none does
      failedAt ==
        IF Falsy(vapidPublicKey) \/ Falsy(vapidPrivateKey)
          THEN StageIndex("checkVapidKeys")
        ELSE IF ~endpoint.ok THEN StageIndex("parseEndpoint")
        ELSE IF ~app.ok THEN StageIndex("buildClaims")
        ELSE IF ~key.ok THEN StageIndex("importVapidKey")
        ELSE IF ~userKey.ok THEN StageIndex("importUserKey")
        ELSE 0
      done == IF failedAt = 0 THEN Len(Stages) ELSE failedAt - 1
      At(name, value) == IF done >= StageIndex(name) THEN value ELSE Nil
  IN  [ pc           |-> IF failedAt = 0 THEN "fetching" ELSE "failed",
        error        |-> IF failedAt = 0 THEN "" ELSE Stages[failedAt],
        steps        |-> SubSeq(Stages, 1, done),
        draws        |-> (IF done >= StageIndex("signToken") THEN 1 ELSE 0)
                         + (IF done >= StageIndex("randomSalt") THEN 1 ELSE 0)
                         + (IF done >= StageIndex("generateKeyPair") THEN 1 ELSE 0),
        subscription |-> subscription,
        payload      |-> payload,
        dateNow      |-> dateNow,
        vapidPublicKey |-> vapidPublicKey,
        body         |-> At("stringifyPayload", text),
        now          |-> At("buildClaims", <<nowSec>>),
        aud          |-> At("buildClaims", audience),
        exp          |-> At("buildClaims", <<expiry>>),
        sub          |-> At("buildClaims", subject),
        claims       |-> At("buildClaims", clm),
        unsignedToken |-> At("buildClaims", unsigned),
        key          |-> At("importVapidKey", <<key>>),
        signature    |-> At("signToken", sig),
        token        |-> At("signToken", jwt),
        userPublicKey |-> At("decodeSubscriptionKeys", userPub),
        userAuth     |-> At("decodeSubscriptionKeys", auth),
        salt         |-> At("randomSalt", msgSalt),
        localKeys    |-> At("generateKeyPair", <<localKeys>>),
        localPublicKey |-> At("generateKeyPair", localPub),
        sharedSecret |-> At("diffieHellman", secret),
        authInfo     |-> At("deriveKeys", info),
        prk          |-> At("deriveKeys", prkBytes),
        contentKey   |-> At("deriveKeys", cek),
        nonce        |-> At("deriveKeys", iv),
        paddedPayload |-> At("encrypt", padded),
        encrypted    |-> At("encrypt", enc),
        recordSize   |-> At("assemble", rs),
        encryptedBody |-> At("assemble", bytes),
        request      |-> At("fetch", <<fetchRequest(subscription, jwt, vapidPublicKey[1], bytes)>>),
        status       |-> 0,
        \* the message of an error the function itself constructs
        thrown       |-> IF failedAt = StageIndex("checkVapidKeys")
                           THEN KeysNotConfigured ELSE Nil ]

----------------------------------------------------------------------------
(* What the function is called with.  Subscriptions are those of simulated  *)
(* subscribers whose private keys are known, so that a record can be        *)
(* opened; VAPID configurations are of both key shapes.                     *)

MaxCalls == 2

Url(parts) ==
  parts.scheme \o <<58, 47, 47>>
  \o (IF parts.userinfo = <<>> THEN <<>> ELSE parts.userinfo \o <<64>>)
  \o parts.host
  \o (IF parts.port = <<>> THEN <<>> ELSE <<58>> \o parts.port)
  \o parts.path
  \o (IF parts.query = <<>> THEN <<>> ELSE <<63>> \o parts.query)
  \o (IF parts.fragment = <<>> THEN <<>> ELSE <<35>> \o parts.fragment)

\* https://fcm.googleapis.com/fcm/send/a1?k=v#top
EndpointFcm ==
  [ scheme |-> <<104, 116, 116, 112, 115>>, userinfo |-> <<>>,
    host |-> <<102, 99, 109, 46, 103, 111, 111, 103, 108, 101, 97, 112, 105, 115,
               46, 99, 111, 109>>,
    port |-> <<>>, path |-> <<47, 102, 99, 109, 47, 115, 101, 110, 100, 47, 97, 49>>,
    query |-> <<107, 61, 118>>, fragment |-> <<116, 111, 112>> ]

\* HTTPS://u@Push.Example:8443/w/2
EndpointPort ==
  [ scheme |-> <<72, 84, 84, 80, 83>>, userinfo |-> <<117>>,
    host |-> <<80, 117, 115, 104, 46, 69, 120, 97, 109, 112, 108, 101>>,
    port |-> <<56, 52, 52, 51>>, path |-> <<47, 119, 47, 50>>,
    query |-> <<>>, fragment |-> <<>> ]

\* https://push.example:443/w/2
EndpointDefaultPort ==
  [ scheme |-> <<104, 116, 116, 112, 115>>, userinfo |-> <<>>,
    host |-> <<112, 117, 115, 104, 46, 101, 120, 97, 109, 112, 108, 101>>,
    port |-> <<52, 52, 51>>, path |-> <<47, 119, 47, 50>>,
    query |-> <<>>, fragment |-> <<>> ]

Endpoints == {EndpointFcm, EndpointPort, EndpointDefaultPort}

\* "not a url"
NotAUrl == <<110, 111, 116, 32, 97, 32, 117, 114, 108>>

\* a simulated subscriber: its private key and auth secret
SubscriberA == [privateKey |-> 23,  auth |-> [i \in 1..16 |-> (i * 13 + 5) % 256]]
SubscriberC == [privateKey |-> 101, auth |-> [i \in 1..16 |-> (i * 29 + 2) % 256]]

Subscribers == {SubscriberA, SubscriberC}

\* the keys the subscriber's browser hands out
KeysOf(subscriber) ==
  [ p256dh |-> ToBase64url(EncodePoint(PublicOf(subscriber.privateKey))),
    auth   |-> ToBase64url(subscriber.auth) ]

SubFcm == [endpoint |-> Url(EndpointFcm), keys |-> KeysOf(SubscriberA)]
SubPort == [endpoint |-> Url(EndpointPort), keys |-> KeysOf(SubscriberA)]
SubDefaultPort == [endpoint |-> Url(EndpointDefaultPort), keys |-> KeysOf(SubscriberC)]

\* p256dh of 64 bytes: the point without its 0x04 marker
SubShortKey ==
  [ endpoint |-> Url(EndpointFcm),
    keys |-> [ p256dh |-> ToBase64url(Tail(EncodePoint(PublicOf(SubscriberA.privateKey)))),
               auth   |-> ToBase64url(SubscriberA.auth) ] ]

SubBadEndpoint == [endpoint |-> NotAUrl, keys |-> KeysOf(SubscriberA)]

Subscriptions == {SubFcm, SubPort, SubDefaultPort, SubShortKey, SubBadEndpoint}

\* { title: "Class", body: "Hi \"A\"" }
PayloadQuoted ==
  << <<(<<116, 105, 116, 108, 101>>), [str |-> <<67, 108, 97, 115, 115>>]>>,
     <<(<<98, 111, 100, 121>>), [str |-> <<72, 105, 32, 34, 65, 34>>]>> >>

\* { title: "<U+091C>", body: "Due", url: "/c/1" }
PayloadHindi ==
  << <<(<<116, 105, 116, 108, 101>>), [str |-> <<2332>>]>>,
     <<(<<98, 111, 100, 121>>), [str |-> <<68, 117, 101>>]>>,
     <<(<<117, 114, 108>>), [str |-> <<47, 99, 47, 49>>]>> >>

Payloads == {PayloadQuoted, PayloadHindi}

\* a VAPID private key of 31 bytes with the public key as 64 bytes X || Y:
\* the shape for which the buffer of vapidKeyDer is a well-formed ECPrivateKey
ShortPrivate == [i \in 1..31 |-> (i * 5 + 3) % 256]
ShortPublic == Tail(EncodePoint(PublicOf(ScalarOf(<<32>> \o ShortPrivate))))

\* a VAPID key pair as web-push tools generate it: 32 and 65 bytes
FullPrivate == [i \in 1..32 |-> (i * 7 + 1) % 256]
FullPublic == EncodePoint(PublicOf(ScalarOf(FullPrivate)))

\* https://pathshala.example
AppUrl ==
  <<104, 116, 116, 112, 115, 58, 47, 47, 112, 97, 116, 104, 115, 104, 97, 108, 97,
    46, 101, 120, 97, 109, 112, 108, 101>>

\* "3600": a time to live set in the environment; the function reads only
\* the three variables above it
ConfiguredTtl == <<51, 54, 48, 48>>

EnvShortKeys ==
  [ VAPID_PUBLIC_KEY    |-> <<ToBase64url(ShortPublic)>>,
    VAPID_PRIVATE_KEY   |-> <<ToBase64url(ShortPrivate)>>,
    NEXT_PUBLIC_APP_URL |-> <<AppUrl>>,
    PUSH_TTL            |-> <<ConfiguredTtl>> ]

EnvShortKeysNoUrl == [EnvShortKeys EXCEPT !.NEXT_PUBLIC_APP_URL = <<>>]

EnvFullKeys ==
  [ VAPID_PUBLIC_KEY    |-> <<ToBase64url(FullPublic)>>,
    VAPID_PRIVATE_KEY   |-> <<ToBase64url(FullPrivate)>>,
    NEXT_PUBLIC_APP_URL |-> <<AppUrl>>,
    PUSH_TTL            |-> <<ConfiguredTtl>> ]

EnvNoPrivateKey == [EnvShortKeys EXCEPT !.VAPID_PRIVATE_KEY = <<>>]

EnvBadAppUrl == [EnvShortKeys EXCEPT !.NEXT_PUBLIC_APP_URL = <<NotAUrl>>]

Envs == {EnvShortKeys, EnvShortKeysNoUrl, EnvFullKeys, EnvNoPrivateKey, EnvBadAppUrl}

\* Date.now() when the first call starts
ClockStarts == {1000999, 86399000}

\* what the push service answers
Statuses == {201, 410}

\* "Gone"
ResponseText == <<71, 111, 110, 101>>

----------------------------------------------------------------------------
Init ==
  /\ env \in Envs
  /\ clock \in ClockStarts
  /\ rng = 0
  /\ calls = <<>>
  /\ network = <<>>
  /\ store = NoDocument
  /\ requests = <<>>
  /\ derived = Nil

\* a variant that posts to the endpoint whether or not the call got through
\* its preparation (an unauthenticated request with an empty body on failure)
InvokeSendAnyway(subscription, payload) ==
  /\ Len(calls) < MaxCalls
  /\ \E call \in {sendPushNotification(env, subscription, payload, clock, rng)} :
         /\ calls' = Append(calls, call)
         /\ rng' = rng + call.draws
         /\ network' = IF call.pc = "fetching"
                         THEN Append(network, call.request[1])
                         ELSE Append(network,
                                     [url |-> subscription.endpoint,
                                      method |-> "POST", body |-> <<>>])
  /\ clock' = clock + 1500
  /\ UNCHANGED <<env, store, requests, derived>>

\* a caller invokes sendPushNotification: it runs to its first await
Invoke(subscription, payload) ==
  /\ Len(calls) < MaxCalls
  /\ \E call \in {sendPushNotification(env, subscription, payload, clock, rng)} :
         /\ calls' = Append(calls, call)
         /\ rng' = rng + call.draws
         /\ network' = IF call.pc = "fetching"
                         THEN Append(network, call.request[1])
                         ELSE network
  /\ clock' = clock + 1500
  /\ UNCHANGED <<env, store, requests, derived>>

\* a variant that blanks the keys of the caller's subscription object when
\* the service answers 410
RespondBlankGone(i, status) ==
  /\ calls[i].pc = "fetching"
  /\ calls' = [calls EXCEPT
                 ![i].status = status,
                 ![i].pc = IF status >= 200 /\ status <= 299
                             THEN "done" ELSE "readingText",
                 ![i].subscription =
                   IF status = 410
                     THEN [@ EXCEPT !.keys = [p256dh |-> <<>>, auth |-> <<>>]]
                     ELSE @]
  /\ UNCHANGED <<env, clock, rng, network, store, requests, derived>>

\* a variant that takes every status below 400 for a success
RespondOkBelow400(i, status) ==
  /\ calls[i].pc = "fetching"
  /\ calls' = [calls EXCEPT ![i].status = status,
                            ![i].pc = IF status < 400
                                        THEN "done" ELSE "readingText"]
  /\ UNCHANGED <<env, clock, rng, network, store, requests, derived>>

\* the push service answers: if (!response.ok) ... await response.text()
Respond(i, status) ==
  /\ calls[i].pc = "fetching"
  /\ calls' = [calls EXCEPT ![i].status = status,
                            ![i].pc = IF status >= 200 /\ status <= 299
                                        THEN "done" ELSE "readingText"]
  /\ UNCHANGED <<env, clock, rng, network, store, requests, derived>>

\* fetch rejects: the request did not get an answer
Reject(i) ==
  /\ calls[i].pc = "fetching"
  /\ calls' = [calls EXCEPT ![i].pc = "failed", ![i].error = "fetch"]
  /\ UNCHANGED <<env, clock, rng, network, store, requests, derived>>

\* a variant that sends the request again when the service answers 429 or 503
ReadTextRetry(i) ==
  /\ calls[i].pc = "readingText"
  /\ IF calls[i].status \in {429, 503}
       THEN /\ calls' = [calls EXCEPT ![i].pc = "fetching"]
            /\ network' = Append(network, calls[i].request[1])
       ELSE /\ calls' = [calls EXCEPT ![i].pc = "failed",
                                      ![i].error = "pushFailed"]
            /\ UNCHANGED network
  /\ UNCHANGED <<env, clock, rng, store, requests, derived>>

\* throw new Error(`Push failed (${response.status}): ${text}`)
ReadText(i) ==
  /\ calls[i].pc = "readingText"
  /\ calls' = [calls EXCEPT
                 ![i].pc = "failed",
                 ![i].error = "pushFailed",
                 ![i].thrown =
                   <<80, 117, 115, 104, 32, 102, 97, 105, 108, 101, 100, 32, 40>>
                   \o Decimal(calls[i].status) \o <<41, 58, 32>> \o ResponseText]
  /\ UNCHANGED <<env, clock, rng, network, store, requests, derived>>

Next ==
  \/ \E subscription \in Subscriptions, payload \in Payloads :
       Invoke(subscription, payload)
  \/ \E i \in 1..Len(calls), status \in Statuses : Respond(i, status)
  \/ \E i \in 1..Len(calls) : Reject(i)
  \/ \E i \in 1..Len(calls) : ReadText(i)

Spec == Init /\ [][Next]_vars

----------------------------------------------------------------------------
(* The determinism harness: the random generator can be reseeded, so that   *)
(* a later call is given the salt and key pair of an earlier one, and the   *)
(* process can be reconfigured between two calls.                           *)

\* a second well-formed configuration, with other VAPID keys and no app URL
OtherPrivate == [i \in 1..31 |-> (i * 11 + 9) % 256]
OtherPublic == Tail(EncodePoint(PublicOf(ScalarOf(<<32>> \o OtherPrivate))))

EnvOtherKeys ==
  [ VAPID_PUBLIC_KEY    |-> <<ToBase64url(OtherPublic)>>,
    VAPID_PRIVATE_KEY   |-> <<ToBase64url(OtherPrivate)>>,
    NEXT_PUBLIC_APP_URL |-> <<>>,
    PUSH_TTL            |-> <<ConfiguredTtl>> ]

InitReplay ==
  /\ env = EnvShortKeys
  /\ clock \in ClockStarts
  /\ rng = 0
  /\ calls = <<>>
  /\ network = <<>>
  /\ store = NoDocument
  /\ requests = <<>>
  /\ derived = Nil

Reseed ==
  /\ rng > 0
  /\ rng' = 0
  /\ UNCHANGED <<env, clock, calls, network, store, requests, derived>>

Reconfigure ==
  /\ env = EnvShortKeys
  /\ Len(calls) > 0
  /\ env' = EnvOtherKeys
  /\ UNCHANGED <<clock, rng, calls, network, store, requests, derived>>

NextReplay == Next \/ Reseed \/ Reconfigure

SpecReplay == InitReplay /\ [][NextReplay]_vars

----------------------------------------------------------------------------
(* Calls at the edges of what the function accepts: keys that are set but   *)
(* empty, subscription keys of other lengths or off the curve, and a        *)
(* payload larger than a push service takes.                                *)

APoint == EncodePoint(PublicOf(SubscriberA.privateKey))

\* p256dh of 66 bytes: a valid point and one byte more
SubLongKey ==
  [ endpoint |-> Url(EndpointFcm),
    keys |-> [ p256dh |-> ToBase64url(APoint \o <<7>>),
               auth   |-> ToBase64url(SubscriberA.auth) ] ]

\* p256dh of 65 bytes that start with 0x04 and are not a point of the curve
SubOffCurve ==
  [ endpoint |-> Url(EndpointFcm),
    keys |-> [ p256dh |-> ToBase64url([APoint EXCEPT ![65] = (@ + 1) % 256]),
               auth   |-> ToBase64url(SubscriberA.auth) ] ]

\* auth of 15 bytes
SubShortAuth ==
  [ endpoint |-> Url(EndpointFcm),
    keys |-> [ p256dh |-> ToBase64url(APoint),
               auth   |-> ToBase64url(SubarrayTo(SubscriberA.auth, 15)) ] ]

\* auth of 17 bytes
SubLongAuth ==
  [ endpoint |-> Url(EndpointFcm),
    keys |-> [ p256dh |-> ToBase64url(APoint),
               auth   |-> ToBase64url(SubscriberA.auth \o <<9>>) ] ]

EdgeSubscriptions ==
  {SubFcm, SubShortKey, SubLongKey, SubOffCurve, SubShortAuth, SubLongAuth}

\* { title: "T", body: "aaa...a" } with a body of 4100 characters
PayloadLarge ==
  << <<(<<116, 105, 116, 108, 101>>), [str |-> <<84>>]>>,
     <<(<<98, 111, 100, 121>>), [str |-> [i \in 1..4100 |-> 97]]>> >>

\* VAPID_PUBLIC_KEY set to the empty string
EnvEmptyPublicKey == [EnvShortKeys EXCEPT !.VAPID_PUBLIC_KEY = << <<>> >>]

EdgeEnvs == {EnvShortKeys, EnvNoPrivateKey, EnvEmptyPublicKey}

InitEdge ==
  /\ env \in EdgeEnvs
  /\ clock = 1000999
  /\ rng = 0
  /\ calls = <<>>
  /\ network = <<>>
  /\ store = NoDocument
  /\ requests = <<>>
  /\ derived = Nil

NextEdge ==
  \/ \E subscription \in EdgeSubscriptions : Invoke(subscription, PayloadQuoted)
  \/ Invoke(SubFcm, PayloadLarge)
  \/ \E i \in 1..Len(calls), status \in Statuses : Respond(i, status)
  \/ \E i \in 1..Len(calls) : Reject(i)
  \/ \E i \in 1..Len(calls) : ReadText(i)

SpecEdge == InitEdge /\ [][NextEdge]_vars

----------------------------------------------------------------------------
(* Delivery: one well-configured sender and every kind of answer a push     *)
(* service gives (success, gone, too large, too many requests, failure).    *)

DeliveryStatuses == {200, 204, 299, 304, 404, 410, 413, 429, 500, 503}

DeliverySubscriptions == {SubFcm, SubDefaultPort}

InitDelivery ==
  /\ env = EnvShortKeys
  /\ clock = 1000999
  /\ rng = 0
  /\ calls = <<>>
  /\ network = <<>>
  /\ store = NoDocument
  /\ requests = <<>>
  /\ derived = Nil

NextDelivery ==
  \/ \E subscription \in DeliverySubscriptions :
       Invoke(subscription, PayloadQuoted)
  \/ \E i \in 1..Len(calls), status \in DeliveryStatuses : Respond(i, status)
  \/ \E i \in 1..Len(calls) : Reject(i)
  \/ \E i \in 1..Len(calls) : ReadText(i)

SpecDelivery == InitDelivery /\ [][NextDelivery]_vars

----------------------------------------------------------------------------
(* hkdf on its own: salts, keying material and info strings of several      *)
(* lengths (the empty one included), and every output length up to          *)
(* MaxLength.                                                               *)

MaxLength == 32

HkdfSalts == {<<>>, SubscriberA.auth, [i \in 1..32 |-> (i * 7) % 256]}

HkdfIkms == {<<>>, [i \in 1..32 |-> (i * 5 + 1) % 256]}

HkdfInfos == {<<>>, CekInfo, NonceInfo}

InitHkdf ==
  /\ env = EnvShortKeys
  /\ clock = 1000999
  /\ rng = 0
  /\ calls = <<>>
  /\ network = <<>>
  /\ store = NoDocument
  /\ requests = <<>>
  /\ derived \in { <<[pc |-> "ready", hkdfSalt |-> a, ikm |-> k, info |-> n,
                      length |-> 0, out |-> Nil]>> :
                   a \in HkdfSalts, k \in HkdfIkms, n \in HkdfInfos }

\* hkdf(salt, ikm, info, length) is called and returns
Hkdf(length) ==
  /\ derived[1].pc = "ready"
  /\ derived' = <<[derived[1] EXCEPT
                     !.pc = "done",
                     !.length = length,
                     !.out = hkdf(derived[1].hkdfSalt, derived[1].ikm,
                                  derived[1].info, length)]>>
  /\ UNCHANGED <<env, clock, rng, calls, network, store, requests>>

NextHkdf == \E length \in 0..MaxLength : Hkdf(length)

SpecHkdf == InitHkdf /\ [][NextHkdf]_vars

----------------------------------------------------------------------------
(* The subscription store of one user: the Firestore document               *)
(* pushSubscriptions/{uid} and the POST and DELETE handlers of              *)
(* /api/notifications/subscribe.  A handler runs from one await on the      *)
(* database to the next in one step; requests interleave at these awaits.   *)

MaxRequests == 2

\* subscriptions a browser may post: two of them share an endpoint, one has none
StoreSubscriptions ==
  {SubFcm, SubShortKey, SubPort, [endpoint |-> <<>>, keys |-> KeysOf(SubscriberC)]}

\* FieldValue.arrayUnion(element): appended unless an equal element is there
arrayUnion(list, element) ==
  IF \E k \in 1..Len(list) : list[k] = element THEN list
  ELSE Append(list, element)

\* (data.subscriptions || []).filter((s) => s.endpoint !== endpoint)
RECURSIVE filter(_, _)
filter(list, endpoint) ==
  IF list = <<>> THEN <<>>
  ELSE IF Head(list).endpoint # endpoint
         THEN <<Head(list)>> \o filter(Tail(list), endpoint)
         ELSE filter(Tail(list), endpoint)

InitSubscribe ==
  /\ env = EnvShortKeys
  /\ clock = 1000999
  /\ rng = 0
  /\ calls = <<>>
  /\ network = <<>>
  /\ store \in { NoDocument,
                 [exists |-> TRUE, subscriptions |-> <<>>],
                 [exists |-> TRUE, subscriptions |-> <<SubPort>>],
                 [exists |-> TRUE, subscriptions |-> <<SubFcm, SubPort>>] }
  /\ requests = <<>>
  /\ derived = Nil

\* POST arrives: session cookie, verifySessionCookie, request.json and the
\* check of subscription.endpoint, up to the await of set
POST(cookie, subscription) ==
  /\ Len(requests) < MaxRequests
  /\ requests' = Append(requests,
       [ method |-> "POST", cookie |-> cookie,
         subscription |-> subscription, endpoint |-> subscription.endpoint,
         filtered |-> <<>>,
         pc     |-> IF cookie = "valid" /\ subscription.endpoint # <<>>
                      THEN "set" ELSE "returned",
         status |-> IF cookie = "none" THEN 401
                    ELSE IF cookie = "revoked" THEN 500
                    ELSE IF subscription.endpoint = <<>> THEN 400
                    ELSE 0 ])
  /\ UNCHANGED <<env, clock, rng, calls, network, store, derived>>

\* set({..., subscriptions: arrayUnion(subscription)}, {merge: true}) is
\* applied by the database; the handler returns { success: true }
Set(r) ==
  /\ requests[r].pc = "set"
  /\ store' = [exists |-> TRUE,
               subscriptions |-> arrayUnion(store.subscriptions,
                                            requests[r].subscription)]
  /\ requests' = [requests EXCEPT ![r].pc = "returned", ![r].status = 200]
  /\ UNCHANGED <<env, clock, rng, calls, network, derived>>

\* DELETE arrives: session cookie, verifySessionCookie, request.json and the
\* check of endpoint, up to the await of docRef.get
DELETE(cookie, endpoint) ==
  /\ Len(requests) < MaxRequests
  /\ requests' = Append(requests,
       [ method |-> "DELETE", cookie |-> cookie,
         subscription |-> Nil, endpoint |-> endpoint,
         filtered |-> <<>>,
         pc     |-> IF cookie = "valid" /\ endpoint # <<>>
                      THEN "get" ELSE "returned",
         status |-> IF cookie = "none" THEN 401
                    ELSE IF cookie = "revoked" THEN 500
                    ELSE IF endpoint = <<>> THEN 400
                    ELSE 0 ])
  /\ UNCHANGED <<env, clock, rng, calls, network, store, derived>>

\* docRef.get() resolves: without a document the handler returns success,
\* with one it filters the list it read, up to the await of update
Get(r) ==
  /\ requests[r].pc = "get"
  /\ requests' =
       IF store.exists
         THEN [requests EXCEPT
                 ![r].pc = "update",
                 ![r].filtered = filter(store.subscriptions, requests[r].endpoint)]
         ELSE [requests EXCEPT ![r].pc = "returned", ![r].status = 200]
  /\ UNCHANGED <<env, clock, rng, calls, network, store, derived>>

\* docRef.update({subscriptions: filtered, ...}) is applied by the database;
\* the handler returns { success: true }
Update(r) ==
  /\ requests[r].pc = "update"
  /\ store' = [store EXCEPT !.subscriptions = requests[r].filtered]
  /\ requests' = [requests EXCEPT ![r].pc = "returned", ![r].status = 200]
  /\ UNCHANGED <<env, clock, rng, calls, network, derived>>

\* an awaited database operation rejects: catch (err) answers 500
Unavailable(r) ==
  /\ requests[r].pc \in {"set", "get", "update"}
  /\ requests' = [requests EXCEPT ![r].pc = "returned", ![r].status = 500]
  /\ UNCHANGED <<env, clock, rng, calls, network, store, derived>>

NextSubscribe ==
  \/ \E cookie \in {"none", "revoked", "valid"},
        subscription \in StoreSubscriptions : POST(cookie, subscription)
  \/ \E cookie \in {"none", "revoked", "valid"},
        subscription \in StoreSubscriptions : DELETE(cookie, subscription.endpoint)
  \/ \E r \in 1..Len(requests) : Set(r)
  \/ \E r \in 1..Len(requests) : Get(r)
  \/ \E r \in 1..Len(requests) : Update(r)
  \/ \E r \in 1..Len(requests) : Unavailable(r)

SpecSubscribe == InitSubscribe /\ [][NextSubscribe]_vars

----------------------------------------------------------------------------
(* Properties of the request body (RFC 8188 aes128gcm record) and of the    *)
(* VAPID token, stated on the calls the state holds.                        *)

\* the call completed the statement called name
Reached(c, name) == Len(c.steps) >= StageIndex(name)

\* the big-endian number held in four bytes from index at
ReadUInt32BE(buf, at) ==
  buf[at] * 16777216 + buf[at + 1] * 65536 + buf[at + 2] * 256 + buf[at + 3]

\* the UTF-8 bytes of JSON.stringify(payload), written out
PayloadBytes(payload) ==
  IF payload = PayloadQuoted
  THEN \* {"title":"Class","body":"Hi \"A\""}
    <<123, 34, 116, 105, 116, 108, 101, 34, 58, 34, 67, 108, 97, 115, 115,
      34, 44, 34, 98, 111, 100, 121, 34, 58, 34, 72, 105, 32, 92, 34, 65,
      92, 34, 34, 125>>
  ELSE \* {"title":"<U+091C>","body":"Due","url":"/c/1"}
    <<123, 34, 116, 105, 116, 108, 101, 34, 58, 34, 224, 164, 156, 34, 44,
      34, 98, 111, 100, 121, 34, 58, 34, 68, 117, 101, 34, 44, 34, 117, 114,
      108, 34, 58, 34, 47, 99, 47, 49, 34, 125>>

\* the origin of an endpoint given by its parts: lower-case scheme and host,
\* and the port unless it is the scheme's default
Origin(parts) ==
  LowerAll(parts.scheme) \o <<58, 47, 47>> \o LowerAll(parts.host)
  \o (IF parts.port = <<>> \/ parts.port = <<52, 52, 51>> THEN <<>>
      ELSE <<58>> \o parts.port)

\* str holds pattern as a substring
Contains(str, pattern) ==
  \E k \in 1..(Len(str) - Len(pattern) + 1) :
     SubSeq(str, k, k + Len(pattern) - 1) = pattern

\* the segments of a token that holds exactly two dots
Dots(jwt) == {k \in 1..Len(jwt) : jwt[k] = 46}

Segment(jwt, n) ==
  LET first  == Min(Dots(jwt))
      second == Max(Dots(jwt))
  IN  IF n = 1 THEN SubSeq(jwt, 1, first - 1)
      ELSE IF n = 2 THEN SubSeq(jwt, first + 1, second - 1)
      ELSE SubSeq(jwt, second + 1, Len(jwt))

\* A-Z a-z 0-9 - _
Base64urlAlphabet == (65..90) \cup (97..122) \cup (48..57) \cup {45, 95}

\* What a user agent does with a received body (RFC 8291 section 4): it
\* reads the salt and the sender's key from the record header, agrees on the
\* secret with its own private key, derives the keys with its auth secret
\* and opens the record, dropping the delimiter.
ReceiverOpen(subscriber, message) ==
  LET failed   == [ok |-> FALSE, payload |-> <<>>]
      msgSalt  == SubarrayTo(message, 16)
      idLength == message[21]
      keyId    == SubSeq(message, 22, 21 + idLength)
      senderKey == createPublicKey(Concat(<<BufferFromHex(SpkiHeaderHex), keyId>>))
      ownPublic == EncodePoint(PublicOf(subscriber.privateKey))
      record   == Subarray(message, 21 + idLength)
      ciphertext == SubarrayTo(record, Len(record) - 16)
      tag      == Subarray(record, Len(record) - 16)
      secret   == diffieHellman(senderKey.publicKey, subscriber.privateKey)
      ikm      == prk(subscriber.auth, secret, authInfo(ownPublic, keyId))
      cek      == contentKey(msgSalt, ikm)
      iv       == nonce(msgSalt, ikm)
      plain    == DecipherUpdate(cek, iv, ciphertext)
  IN  IF Len(message) < 21 \/ Len(message) < 21 + idLength + 17 THEN failed
      ELSE IF ~senderKey.ok THEN failed
      ELSE IF tag # GetAuthTag(cek, iv, ciphertext) THEN failed
      ELSE IF plain[Len(plain)] # 2 THEN failed
      ELSE [ok |-> TRUE, payload |-> SubarrayTo(plain, Len(plain) - 1)]

\* C1 (as the specification states it): in every assembled body the byte at
\* offset 20 is 0x41, the 65 bytes from offset 21 are the uncompressed
\* ephemeral public key starting with 0x04, and the ciphertext starts at
\* offset 86.
C1_KeyIdIsUncompressedPoint ==
  \A i \in 1..Len(calls) :
     Reached(calls[i], "assemble") =>
       LET message == calls[i].encryptedBody
       IN  /\ message[21] = 65
           /\ message[22] = 4
           /\ SubSeq(message, 22, 86) = EncodePoint(calls[i].localKeys[1].publicKey)
           /\ Subarray(message, 86) = calls[i].encrypted

\* C2 (as the specification states it): the record size field holds the
\* length of ciphertext and tag plus 66.
C2_RecordSizePlus66 ==
  \A i \in 1..Len(calls) :
     Reached(calls[i], "assemble") =>
       ReadUInt32BE(calls[i].encryptedBody, 17) = Len(calls[i].encrypted) + 1 + 65

\* C2 (amended): bytes 16..19 of the body are the big-endian 32-bit value
\* of the length of ciphertext and tag plus 18, which is the length of the
\* payload's UTF-8 bytes plus 1 + 16 + 18.
C2_RecordSizePlus18 ==
  \A i \in 1..Len(calls) :
     Reached(calls[i], "assemble") =>
       /\ ReadUInt32BE(calls[i].encryptedBody, 17) = Len(calls[i].encrypted) + 18
       /\ ReadUInt32BE(calls[i].encryptedBody, 17)
            = Len(PayloadBytes(calls[i].payload)) + 1 + 16 + 18

C2_Witness ==
  \E i \in 1..Len(calls) :
     /\ Reached(calls[i], "assemble")
     /\ calls[i].payload = PayloadHindi
     /\ SubSeq(calls[i].encryptedBody, 17, 20) = <<0, 0, 0, 76>>

\* C3: the body is, in order and with nothing else, the 16-byte salt, the
\* 4-byte record size, one length byte, the key identifier of that length
\* and the encrypted content; its first 16 bytes are the salt from which
\* the content key and the nonce of this message were derived.
C3_BodyLayout ==
  \A i \in 1..Len(calls) :
     Reached(calls[i], "assemble") =>
       LET c == calls[i]
           message == c.encryptedBody
           idLength == message[21]
       IN  /\ Len(c.salt) = 16
           /\ Len(c.recordSize) = 4
           /\ SubSeq(message, 1, 16) = c.salt
           /\ SubSeq(message, 17, 20) = c.recordSize
           /\ idLength = Len(c.localPublicKey)
           /\ SubSeq(message, 22, 21 + idLength) = c.localPublicKey
           /\ SubSeq(message, 22 + idLength, Len(message)) = c.encrypted
           /\ Len(message) = 16 + 4 + 1 + idLength + Len(c.encrypted)
           /\ c.contentKey = hkdf(SubSeq(message, 1, 16), c.prk, CekInfo, 16)
           /\ c.nonce = hkdf(SubSeq(message, 1, 16), c.prk, NonceInfo, 12)
           /\ c.encrypted = encrypted(c.contentKey, c.nonce, c.paddedPayload)

C3_Witness ==
  \E i \in 1..Len(calls) :
     /\ calls[i].pc = "fetching"
     /\ network # <<>>
     /\ \E k \in 1..Len(network) : network[k].body = calls[i].encryptedBody
     /\ SubSeq(calls[i].encryptedBody, 1, 16) = calls[i].salt

\* C4: the plaintext given to the cipher is the UTF-8 bytes of the payload's
\* JSON followed by the single byte 0x02, and the encrypted content is the
\* ciphertext followed by the 16-byte tag: its length is the payload's
\* length plus 17.
C4_PlaintextAndTag ==
  \A i \in 1..Len(calls) :
     Reached(calls[i], "encrypt") =>
       LET c == calls[i]
           json == PayloadBytes(c.payload)
           ciphertext == SubarrayTo(c.encrypted, Len(c.encrypted) - 16)
           tag == Subarray(c.encrypted, Len(c.encrypted) - 16)
       IN  /\ c.paddedPayload = json \o <<2>>
           /\ Len(c.encrypted) = Len(json) + 1 + 16
           /\ DecipherUpdate(c.contentKey, c.nonce, ciphertext) = json \o <<2>>
           /\ Len(tag) = 16
           /\ tag = GetAuthTag(c.contentKey, c.nonce, ciphertext)

C4_Witness ==
  \E i, j \in 1..Len(calls) :
     /\ Reached(calls[i], "encrypt") /\ calls[i].payload = PayloadHindi
     /\ Len(calls[i].encrypted) = 41 + 17
     /\ Reached(calls[j], "encrypt") /\ calls[j].payload = PayloadQuoted
     /\ Len(calls[j].encrypted) = 35 + 17

\* C5 (as the specification states it): the subscriber that holds the
\* private key and the auth secret of the subscription opens every body the
\* function sends and recovers exactly the bytes of the payload's JSON.
C5_ReceiverRecoversPayload ==
  \A i \in 1..Len(calls) :
     Reached(calls[i], "assemble") =>
       \A subscriber \in Subscribers :
          KeysOf(subscriber) = calls[i].subscription.keys =>
            LET opened == ReceiverOpen(subscriber, calls[i].encryptedBody)
            IN  opened.ok /\ opened.payload = PayloadBytes(calls[i].payload)

\* C6: two invocations, however their awaits interleave, never share a
\* salt, an ephemeral key pair, a content key or a nonce, and their bodies
\* differ even for the same subscription and payload.
C6_FreshPerInvocation ==
  \A i, j \in 1..Len(calls) :
     i # j =>
       LET a == calls[i]
           b == calls[j]
       IN  /\ Reached(a, "randomSalt") /\ Reached(b, "randomSalt")
                => a.salt # b.salt
           /\ Reached(a, "generateKeyPair") /\ Reached(b, "generateKeyPair")
                => /\ a.localKeys[1].privateKey # b.localKeys[1].privateKey
                   /\ a.localKeys[1].publicKey # b.localKeys[1].publicKey
           /\ Reached(a, "deriveKeys") /\ Reached(b, "deriveKeys")
                => a.contentKey # b.contentKey /\ a.nonce # b.nonce
           /\ Reached(a, "assemble") /\ Reached(b, "assemble")
                => a.encryptedBody # b.encryptedBody

C6_Witness ==
  \E i, j \in 1..Len(calls) :
     /\ i # j
     /\ calls[i].pc = "fetching" /\ calls[j].pc = "fetching"
     /\ calls[i].subscription = calls[j].subscription
     /\ calls[i].payload = calls[j].payload
     /\ calls[i].encryptedBody # calls[j].encryptedBody

\* C7: two runs given the same ephemeral key pair, salt, subscription keys
\* and payload produce the same body, whatever the endpoint, the VAPID keys
\* and the clock are.
C7_BodyDeterminedByKeyMaterial ==
  \A i, j \in 1..Len(calls) :
     /\ Reached(calls[i], "assemble") /\ Reached(calls[j], "assemble")
     /\ calls[i].localKeys = calls[j].localKeys
     /\ calls[i].salt = calls[j].salt
     /\ calls[i].subscription.keys = calls[j].subscription.keys
     /\ calls[i].payload = calls[j].payload
     => calls[i].encryptedBody = calls[j].encryptedBody

C7_Witness ==
  \E i, j \in 1..Len(calls) :
     /\ i # j
     /\ Reached(calls[i], "assemble") /\ Reached(calls[j], "assemble")
     /\ calls[i].localKeys = calls[j].localKeys
     /\ calls[i].salt = calls[j].salt
     /\ calls[i].subscription.keys = calls[j].subscription.keys
     /\ calls[i].payload = calls[j].payload
     /\ calls[i].subscription.endpoint # calls[j].subscription.endpoint
     /\ calls[i].vapidPublicKey # calls[j].vapidPublicKey
     /\ calls[i].dateNow # calls[j].dateNow
     /\ calls[i].token # calls[j].token
     /\ calls[i].encryptedBody = calls[j].encryptedBody

\* C8: the aud claim of every token is the origin of the endpoint, scheme,
\* "://", host and a non-default port, and holds nothing of the endpoint's
\* userinfo, path, query or fragment.
C8_AudIsEndpointOrigin ==
  \A i \in 1..Len(calls) :
     Reached(calls[i], "signToken") =>
       LET c == calls[i]
           json == base64urlDecode(Segment(c.token, 2))
       IN  /\ \A parts \in Endpoints :
                c.subscription.endpoint = Url(parts) => c.aud = Origin(parts)
           /\ \A k \in 1..Len(c.aud) : c.aud[k] \notin {63, 35, 64}
           /\ Cardinality({k \in 1..Len(c.aud) : c.aud[k] = 47}) = 2
           /\ SubarrayTo(json, 8 + Len(c.aud))
                = BufferFromString(<<123, 34, 97, 117, 100, 34, 58, 34>> \o c.aud)
           /\ json[9 + Len(c.aud)] = 34

C8_Witness ==
  \E i \in 1..Len(calls) :
     /\ Reached(calls[i], "signToken")
     /\ calls[i].subscription.endpoint = Url(EndpointPort)
     /\ calls[i].aud = <<104, 116, 116, 112, 115, 58, 47, 47, 112, 117, 115, 104, 46, 101, 120,
            97, 109, 112, 108, 101, 58, 56, 52, 52, 51>>

\* C9: the exp claim of every token is the whole seconds of the clock at
\* the call plus 43200, so it is never more than 86400 seconds after the
\* time of issue.
C9_ExpIsTwelveHoursAhead ==
  \A i \in 1..Len(calls) :
     Reached(calls[i], "signToken") =>
       LET c == calls[i]
           issued == c.dateNow \div 1000
           json == base64urlDecode(Segment(c.token, 2))
       IN  /\ c.exp[1] = issued + 43200
           /\ c.exp[1] - issued <= 86400
           /\ Contains(json, BufferFromString(
                <<34, 101, 120, 112, 34, 58>> \o Decimal(issued + 43200) \o <<44>>))

C9_Witness ==
  \E i \in 1..Len(calls) :
     /\ Reached(calls[i], "signToken")
     /\ calls[i].dateNow = 86400500
     /\ calls[i].exp = <<129600>>

\* C10: the token is three base64url segments without padding joined by
\* dots; the first is the encoding of {"typ":"JWT","alg":"ES256"}, the
\* second the encoding of the JSON of aud, exp and sub, and the third a
\* 64-byte r || s signature, by the VAPID private key, of the first two
\* segments joined by a dot.
C10_TokenIsSignedJwt ==
  \A i \in 1..Len(calls) :
     Reached(calls[i], "signToken") =>
       LET c == calls[i]
           first  == Segment(c.token, 1)
           second == Segment(c.token, 2)
           third  == Segment(c.token, 3)
       IN  /\ Cardinality(Dots(c.token)) = 2
           /\ \A k \in 1..Len(c.token) : c.token[k] \in Base64urlAlphabet \cup {46}
           /\ first = \* eyJ0eXAiOiJKV1QiLCJhbGciOiJFUzI1NiJ9
                <<101, 121, 74, 48, 101, 88, 65, 105, 79, 105, 74, 75, 86, 49, 81, 105,
                76, 67, 74, 104, 98, 71, 99, 105, 79, 105, 74, 70, 85, 122, 73, 49, 78,
                105, 74, 57>>
           /\ base64urlDecode(second)
                = BufferFromString(
                    <<123, 34, 97, 117, 100, 34, 58, 34>> \o c.aud
                    \o <<34, 44, 34, 101, 120, 112, 34, 58>> \o Decimal(c.exp[1])
                    \o <<44, 34, 115, 117, 98, 34, 58, 34>> \o c.sub \o <<34, 125>>)
           /\ Len(base64urlDecode(third)) = 64
           /\ Len(third) = 86
           /\ EcdsaVerify(PublicOf(c.key[1].d),
                          BufferFromString(first \o <<46>> \o second),
                          base64urlDecode(third))

C10_Witness ==
  \E i \in 1..Len(calls) :
     /\ calls[i].pc = "fetching"
     /\ Cardinality(Dots(calls[i].token)) = 2
     /\ calls[i].request[1].headers.Authorization
          = <<118, 97, 112, 105, 100, 32, 116, 61>> \o calls[i].token
            \o <<44, 32, 107, 61>> \o calls[i].vapidPublicKey[1]

----------------------------------------------------------------------------
(* Properties of the request handed to fetch.                               *)

\* C11: the Authorization header of every request is "vapid t=" the token
\* signed in this call ", k=" the configured VAPID public key string as it
\* is configured, and that string holds the public key of the key object
\* that signed the token.
C11_AuthorizationHeader ==
  \A i \in 1..Len(calls) :
     Reached(calls[i], "fetch") =>
       LET c == calls[i]
           configured == env.VAPID_PUBLIC_KEY[1]
           decoded == base64urlDecode(configured)
           third == Segment(c.token, 3)
       IN  /\ c.request[1].headers.Authorization
                = <<118, 97, 112, 105, 100, 32, 116, 61>> \o c.token
                  \o <<44, 32, 107, 61>> \o configured
           /\ c.token = c.unsignedToken \o <<46>> \o third
           /\ base64urlDecode(third) = c.signature
           /\ EcdsaVerify(PublicOf(c.key[1].d), BufferFromString(c.unsignedToken),
                          c.signature)
           /\ Subarray(EncodePoint(c.key[1].publicKey), 1)
                = Subarray(decoded, Len(decoded) - 64)

C11_Witness ==
  \E i \in 1..Len(calls) :
     /\ calls[i].pc = "fetching"
     /\ env = EnvShortKeysNoUrl
     /\ Len(calls[i].request[1].headers.Authorization)
          = 8 + Len(calls[i].token) + 4 + Len(ToBase64url(ShortPublic))
     /\ \E k \in 1..Len(network) :
           network[k].headers.Authorization
             = calls[i].request[1].headers.Authorization

\* C12: every request is a POST to exactly the endpoint string of the
\* subscription, with the headers Content-Encoding: aes128gcm,
\* Content-Type: application/octet-stream, TTL and Authorization and no
\* other, and its body is the assembled record, byte for byte; one request
\* is issued per call that reaches fetch.
C12_RequestShape ==
  /\ \A i \in 1..Len(calls) :
        Reached(calls[i], "fetch") =>
          LET c == calls[i]
              r == c.request[1]
          IN  /\ r.method = "POST"
              /\ r.url = c.subscription.endpoint
              /\ DOMAIN r.headers
                   = {"Authorization", "ContentEncoding", "ContentType", "TTL"}
              /\ r.headers.ContentEncoding = "aes128gcm"
              /\ r.headers.ContentType = "application/octet-stream"
              /\ r.headers.TTL # <<>>
              /\ SubarrayTo(r.headers.Authorization, 6)
                   = <<118, 97, 112, 105, 100, 32>>
              /\ r.body = c.encryptedBody
              /\ IsBytes(r.body)
              /\ Len(r.body) = 16 + 4 + 1 + Len(c.localPublicKey) + Len(c.encrypted)
  /\ network = [k \in 1..Len(network) |->
                  calls[CHOOSE i \in 1..Len(calls) :
                          /\ Reached(calls[i], "fetch")
                          /\ Cardinality({j \in 1..i : Reached(calls[j], "fetch")}) = k
                       ].request[1]]
  /\ Len(network) = Cardinality({i \in 1..Len(calls) : Reached(calls[i], "fetch")})

C12_Witness ==
  \E i \in 1..Len(calls) :
     /\ calls[i].pc = "done"
     /\ calls[i].status = 201
     /\ \E k \in 1..Len(network) :
           /\ network[k].url = Url(EndpointFcm)
           /\ network[k].method = "POST"
           /\ network[k].body = calls[i].encryptedBody

\* C13 (as the specification states it): the TTL header of a request is the
\* decimal string of the time to live configured for the message.
C13_TtlFollowsConfiguration ==
  \A k \in 1..Len(network) : network[k].headers.TTL = env.PUSH_TTL[1]

----------------------------------------------------------------------------
(* Properties of the function's failures.                                   *)

\* C14: when the VAPID public key or the VAPID private key is unset or
\* empty, the call fails with the configuration error before anything
\* else: no statement of the body has run, no token is signed, no salt or
\* key pair is drawn and no request is issued.
C14_MissingKeysFailFirst ==
  \A i \in 1..Len(calls) :
     (\/ env.VAPID_PUBLIC_KEY \in {<<>>, << <<>> >>}
      \/ env.VAPID_PRIVATE_KEY \in {<<>>, << <<>> >>})
     => LET c == calls[i]
        IN  /\ c.pc = "failed"
            /\ c.error = "checkVapidKeys"
            /\ c.thrown = KeysNotConfigured
            /\ c.steps = <<>>
            /\ c.draws = 0
            /\ c.unsignedToken = Nil /\ c.signature = Nil /\ c.token = Nil
            /\ c.salt = Nil /\ c.localKeys = Nil
            /\ c.encryptedBody = Nil /\ c.request = Nil
            /\ rng = 0
            /\ network = <<>>

C14_Witness ==
  /\ Len(calls) = 2
  /\ env = EnvEmptyPublicKey
  /\ calls[1].error = "checkVapidKeys"
  /\ calls[2].error = "checkVapidKeys"
  /\ network = <<>>

\* a configured VAPID key pair of the standard shape: a 32-byte private
\* scalar and a 65-byte uncompressed public point
WellFormedVapidKeys(e) ==
  /\ ~Falsy(e.VAPID_PUBLIC_KEY) /\ ~Falsy(e.VAPID_PRIVATE_KEY)
  /\ Len(base64urlDecode(e.VAPID_PRIVATE_KEY[1])) = 32
  /\ IsPoint(base64urlDecode(e.VAPID_PUBLIC_KEY[1]))

\* C15 (as the specification states it): when a configured VAPID key is
\* present and malformed, the call fails before a token is signed and no
\* request is issued.
C15_MalformedKeysRejected ==
  \A i \in 1..Len(calls) :
     (/\ ~Falsy(env.VAPID_PUBLIC_KEY) /\ ~Falsy(env.VAPID_PRIVATE_KEY)
      /\ ~WellFormedVapidKeys(env))
     => /\ calls[i].pc = "failed"
        /\ calls[i].error \in {"checkVapidKeys", "importVapidKey"}
        /\ calls[i].signature = Nil
        /\ calls[i].token = Nil
        /\ calls[i].request = Nil
        /\ network = <<>>

\* "mailto:" and "https:"
MailtoScheme == <<109, 97, 105, 108, 116, 111, 58>>

HttpsScheme == <<104, 116, 116, 112, 115, 58>>

\* C16: every token that is signed has a sub claim that starts with
\* "mailto:" or "https:", whatever the application URL is set to; with an
\* application URL that cannot be parsed nothing is signed.
C16_SubIsContactUri ==
  \A i \in 1..Len(calls) :
     LET c == calls[i]
     IN  /\ c.signature # Nil =>
              LET json == base64urlDecode(Segment(c.token, 2))
                  at == Min({k \in 1..(Len(json) - 6) :
                               SubSeq(json, k, k + 6)
                                 = <<34, 115, 117, 98, 34, 58, 34>>}) + 7
                  value == SubSeq(json, at, Len(json) - 2)
              IN  /\ value = BufferFromString(c.sub)
                  /\ \/ SubarrayTo(value, 7) = MailtoScheme
                     \/ SubarrayTo(value, 6) = HttpsScheme
         /\ (~Falsy(env.NEXT_PUBLIC_APP_URL)
             /\ env.NEXT_PUBLIC_APP_URL[1] = NotAUrl)
              => c.signature = Nil /\ c.token = Nil /\ c.request = Nil

C16_Witness ==
  \E i, j \in 1..Len(calls) :
     /\ env = EnvShortKeysNoUrl
     /\ calls[i].signature # Nil
     /\ calls[i].sub = MailtoScheme
          \o <<97, 100, 109, 105, 110, 64, 108, 111, 99, 97, 108, 104, 111, 115,
               116, 58, 51, 48, 48, 48>>
     /\ calls[j].pc = "done"

\* C17 (as the specification states it): a subscription whose p256dh does
\* not decode to 65 bytes that start with 0x04 is rejected: no shared
\* secret, content key or nonce is derived and no request is issued.
C17_KeyLengthValidated ==
  \A i \in 1..Len(calls) :
     LET c == calls[i]
         decoded == base64urlDecode(c.subscription.keys.p256dh)
     IN  (Len(decoded) # 65 \/ decoded[1] # 4)
           => /\ c.pc = "failed"
              /\ c.sharedSecret = Nil
              /\ c.contentKey = Nil /\ c.nonce = Nil
              /\ c.request = Nil

\* C18 (as the specification states it): a subscription whose auth secret
\* does not decode to 16 bytes is rejected: the secret is not used as HKDF
\* salt and no request is issued.
C18_AuthLengthValidated ==
  \A i \in 1..Len(calls) :
     LET c == calls[i]
     IN  Len(base64urlDecode(c.subscription.keys.auth)) # 16
           => /\ c.pc = "failed"
              /\ c.prk = Nil
              /\ c.request = Nil

\* C19: when p256dh decodes to 65 bytes that are not a point of the curve,
\* the call fails at the key agreement: no shared secret, prk, content key
\* or nonce is computed, nothing is encrypted and no request is issued.
C19_OffCurveKeyStopsAgreement ==
  \A i \in 1..Len(calls) :
     LET c == calls[i]
         decoded == base64urlDecode(c.subscription.keys.p256dh)
     IN  (Len(decoded) = 65 /\ decoded # EncodePoint(decoded[2]))
           => /\ c.pc = "failed"
              /\ Reached(c, "generateKeyPair") => c.error = "importUserKey"
              /\ ~Reached(c, "diffieHellman")
              /\ c.sharedSecret = Nil
              /\ c.authInfo = Nil /\ c.prk = Nil
              /\ c.contentKey = Nil /\ c.nonce = Nil
              /\ c.paddedPayload = Nil /\ c.encrypted = Nil
              /\ c.encryptedBody = Nil /\ c.request = Nil
              /\ \A k \in 1..Len(network) :
                    \E j \in 1..Len(calls) :
                       j # i /\ calls[j].request = <<network[k]>>

C19_Witness ==
  \E i, j \in 1..Len(calls) :
     /\ calls[i].subscription = SubOffCurve
     /\ calls[i].error = "importUserKey"
     /\ calls[i].localKeys # Nil
     /\ calls[i].sharedSecret = Nil
     /\ calls[j].pc = "fetching"
     /\ Len(network) = 1

\* C20 (as the specification states it): a record larger than 4096 bytes
\* is refused before any request is issued.
C20_LargeRecordRefused ==
  /\ \A k \in 1..Len(network) : Len(network[k].body) <= 4096
  /\ \A i \in 1..Len(calls) :
        (Reached(calls[i], "assemble") /\ Len(calls[i].encryptedBody) > 4096)
          => calls[i].pc = "failed" /\ calls[i].request = Nil

----------------------------------------------------------------------------
(* Delivery, failure and ordering properties of a call.                     *)

\* the calls 1..n that handed a request to fetch
Fetched(n) == {i \in 1..n : calls[i].request # Nil}

RECURSIVE SumDraws(_)
SumDraws(n) == IF n = 0 THEN 0 ELSE SumDraws(n - 1) + calls[n].draws

\* C21: a call encrypts at most once and sends at most one request, whatever
\* the push service answers and whether or not fetch rejects: the network
\* holds exactly one request per call that reached fetch, each the request of
\* its call, in call order; no answer makes another request appear; and a
\* call drew at most one signature nonce, one salt and one key pair.
C21_AtMostOneRequest ==
  /\ Len(network) = Cardinality(Fetched(Len(calls)))
  /\ \A i \in 1..Len(calls) :
       /\ calls[i].draws <= 3
       /\ calls[i].request # Nil =>
            /\ Len(calls[i].request) = 1
            /\ network[Cardinality(Fetched(i))] = calls[i].request[1]
            /\ calls[i].encrypted # Nil
  /\ rng = SumDraws(Len(calls))

\* two calls were answered 429 and 503 and failed; the network saw two requests
C21_Witness ==
  /\ Len(calls) = 2
  /\ calls[1].pc = "failed" /\ calls[1].error = "pushFailed"
  /\ calls[1].status = 429
  /\ calls[2].pc = "failed" /\ calls[2].error = "pushFailed"
  /\ calls[2].status = 503
  /\ Len(network) = 2

\* the three decimal digits of an HTTP status
StatusDigits(status) ==
  <<48 + (status \div 100), 48 + ((status \div 10) % 10), 48 + (status % 10)>>

C23_InputsUntouched ==
  [][ /\ env' = env
      /\ Len(calls') >= Len(calls)
      /\ \A i \in 1..Len(calls) :
           /\ calls'[i].subscription = calls[i].subscription
           /\ calls'[i].payload = calls[i].payload
           /\ calls'[i].vapidPublicKey = calls[i].vapidPublicKey
      /\ \A n \in (Len(calls) + 1)..Len(calls') :
           /\ calls'[n].subscription \in Subscriptions
           /\ calls'[n].payload \in Payloads
           /\ calls'[n] = sendPushNotification(env, calls'[n].subscription,
                                               calls'[n].payload, clock, rng)
    ]_vars

\* a subscription was answered 410, and the same subscription object was
\* used for a second call, which was delivered
C23_Witness ==
  /\ Len(calls) = 2
  /\ calls[1].status = 410 /\ calls[1].pc = "failed"
  /\ calls[2].subscription = calls[1].subscription
  /\ calls[2].payload = calls[1].payload
  /\ calls[2].pc = "done"

\* "WebPush: info\0"
WebPushInfo ==
  <<87, 101, 98, 80, 117, 115, 104, 58, 32, 105, 110, 102, 111, 0>>

\* HKDF as the receiver computes it: extract, one expand round, truncate
ReceiverHkdf(hkdfSalt, ikm, info, length) ==
  SubSeq(HmacSha256(HmacSha256(hkdfSalt, ikm), info \o <<1>>), 1, length)

\* C24: the keys of a call are derived by the chain of RFC 8291: the shared
\* secret is ECDH of the ephemeral private key and the subscriber's p256dh;
\* authInfo is "WebPush: info\0", the subscriber's public key, then the
\* sender's ephemeral public key (the 65-byte uncompressed point); prk, the
\* content key (16 bytes) and the nonce (12 bytes) are the HKDF outputs over
\* them; and the record is encrypted under that key and nonce.
C24_DerivationChain ==
  \A i \in 1..Len(calls) :
    LET c == calls[i] IN
      Reached(c, "encrypt") =>
        LET ephemeral == c.localKeys[1]
            secret == PointX(PowMod(PointValue(c.userPublicKey),
                                    ephemeral.privateKey))
            info == WebPushInfo \o c.userPublicKey
                      \o EncodePoint(ephemeral.publicKey)
            key == ReceiverHkdf(c.userAuth, secret, info, 32)
            cek == ReceiverHkdf(c.salt, key, CekInfo, 16)
            iv == ReceiverHkdf(c.salt, key, NonceInfo, 12)
        IN  /\ c.sharedSecret = secret
            /\ c.authInfo = info
            /\ c.prk = key
            /\ c.contentKey = cek /\ Len(c.contentKey) = 16
            /\ c.nonce = iv /\ Len(c.nonce) = 12
            /\ SubSeq(c.encrypted, 1, Len(c.paddedPayload)) =
                 CipherUpdate(cek, iv, c.paddedPayload)

\* C25: for every salt, keying material, info and length L <= 32, hkdf
\* returns the first L bytes of HMAC-SHA256 keyed with HMAC-SHA256(salt, ikm)
\* over info followed by the byte 0x01 (one extract, one expand round), and
\* the result has exactly L bytes.
C25_HkdfOneRound ==
  \A k \in 1..Len(derived) :
    LET d == derived[k] IN
      (d.pc = "done" /\ d.length <= 32) =>
        /\ Len(d.out) = d.length
        /\ \A j \in 1..d.length :
             d.out[j] = HmacSha256(HmacSha256(d.hkdfSalt, d.ikm),
                                   d.info \o <<1>>)[j]

\* hkdf returned 12 bytes for a 16-byte salt and the nonce info string
C25_Witness ==
  /\ Len(derived) = 1
  /\ derived[1].pc = "done"
  /\ derived[1].length = 12
  /\ Len(derived[1].hkdfSalt) = 16
  /\ derived[1].info = NonceInfo
  /\ Len(derived[1].out) = 12

\* the place of a statement among those a call completed, 0 if it did not
Position(c, name) ==
  IF \E k \in 1..Len(c.steps) : c.steps[k] = name
    THEN CHOOSE k \in 1..Len(c.steps) : c.steps[k] = name
    ELSE 0

\* C26 as stated: within a call the ephemeral key is generated, the keys are
\* derived, the payload is encrypted, the VAPID token is signed and the
\* request is assembled, in this order; a call that has signed its token has
\* encrypted its payload.
C26_SignedAfterEncryption ==
  \A i \in 1..Len(calls) :
    LET c == calls[i] IN
      /\ c.signature # Nil => c.encrypted # Nil
      /\ Reached(c, "assemble") =>
           /\ Position(c, "generateKeyPair") < Position(c, "deriveKeys")
           /\ Position(c, "deriveKeys") < Position(c, "encrypt")
           /\ Position(c, "encrypt") < Position(c, "signToken")
           /\ Position(c, "signToken") < Position(c, "assemble")

\* C26 as the code has it: the VAPID token is signed first, then the
\* ephemeral key is generated, the keys are derived, the payload is encrypted
\* and the body is assembled; a call that has generated its ephemeral key or
\* encrypted its payload has signed its token before.
C26_SignedBeforeEncryption ==
  \A i \in 1..Len(calls) :
    LET c == calls[i] IN
      /\ c.localKeys # Nil => c.signature # Nil /\ c.token # Nil
      /\ c.encrypted # Nil => c.signature # Nil /\ c.token # Nil
      /\ Position(c, "generateKeyPair") > 0 =>
           /\ Position(c, "signToken") > 0
           /\ Position(c, "signToken") < Position(c, "generateKeyPair")
      /\ Reached(c, "assemble") =>
           /\ Position(c, "generateKeyPair") < Position(c, "deriveKeys")
           /\ Position(c, "deriveKeys") < Position(c, "encrypt")
           /\ Position(c, "encrypt") < Position(c, "assemble")

\* a call signed its token, generated its key pair and stopped at the import
\* of the subscriber's key: a token exists and nothing was encrypted
C26_Witness ==
  \E i \in 1..Len(calls) :
    /\ calls[i].pc = "failed"
    /\ calls[i].error = "importUserKey"
    /\ calls[i].token # Nil
    /\ calls[i].localKeys # Nil
    /\ calls[i].encrypted = Nil

\* C27: a request reaches the push service only from a call in which the
\* VAPID keys were present, both URLs parsed, the token was signed, the
\* subscriber's key was imported and agreed on, and the keys were derived and
\* the payload encrypted; a call in which one of these fails has failed and
\* has sent nothing, so every request on the network is the complete,
\* authenticated request of such a call.
C27_RequestOnlyAfterSuccess ==
  /\ Len(network) = Cardinality(Fetched(Len(calls)))
  /\ \A k \in 1..Len(network) :
       \E i \in 1..Len(calls) : calls[i].request = <<network[k]>>
  /\ \A i \in 1..Len(calls) :
       LET c == calls[i]
           failsEarly ==
             \/ Falsy(env.VAPID_PUBLIC_KEY) \/ Falsy(env.VAPID_PRIVATE_KEY)
             \/ ~ParseUrl(c.subscription.endpoint).ok
             \/ env = EnvBadAppUrl
             \/ env = EnvFullKeys
             \/ ~IsPoint(base64urlDecode(c.subscription.keys.p256dh))
       IN  /\ failsEarly =>
             /\ c.pc = "failed"
             /\ c.error \in Range(Stages) \ {"fetch"}
             /\ c.request = Nil
           /\ (c.pc = "failed" /\ c.error \in Range(Stages) \ {"fetch"}) =>
                c.request = Nil
           /\ c.request # Nil =>
                /\ ~failsEarly
                /\ c.steps = Stages
                /\ c.aud # Nil /\ c.sub # Nil
                /\ c.key # Nil /\ c.key[1].ok
                /\ c.token # Nil
                /\ c.sharedSecret # Nil
                /\ c.prk # Nil /\ c.contentKey # Nil /\ c.nonce # Nil
                /\ c.encrypted # Nil
                /\ c.request[1].body = c.encryptedBody

\* one call stopped at the endpoint URL and another at the subscriber's key:
\* both failed and the network saw nothing
C27_Witness ==
  /\ Len(calls) = 2
  /\ calls[1].pc = "failed" /\ calls[1].error = "parseEndpoint"
  /\ calls[2].pc = "failed" /\ calls[2].error = "importUserKey"
  /\ network = <<>>

\* the key-id field of a body: the bytes after salt(16), size(4), idlen(1)
KeyId(bytes) == SubSeq(bytes, 22, 21 + bytes[21])

C30_VapidDerWellFormed ==
  \A i \in 1..Len(calls) :
    LET c == calls[i]
        scalar == base64urlDecode(env.VAPID_PRIVATE_KEY[1])
        point == base64urlDecode(env.VAPID_PUBLIC_KEY[1])
        der == vapidKeyDer(env.VAPID_PRIVATE_KEY[1], env.VAPID_PUBLIC_KEY[1])
    IN  ( /\ Reached(c, "buildClaims")
          /\ Len(scalar) = 32
          /\ Len(point) = 65 /\ point[1] = 4 ) =>
          /\ der[1] = 48 /\ der[2] = 119
          /\ Len(der) = 2 + der[2]
          /\ SubSeq(der, 6, 7) = <<4, 32>>
          /\ SubSeq(der, 8, 39) = scalar
          /\ SubSeq(der, 40, 51) = <<160, 10>> \o Prime256v1Oid
          /\ SubSeq(der, 52, 56) = <<161, 68, 3, 66, 0>>
          /\ SubSeq(der, 57, Len(der)) = point
          /\ Reached(c, "importVapidKey")

----------------------------------------------------------------------------
(* The subscription store under concurrent requests.                        *)

\* C29: whenever one POST of a subscription S and one DELETE of another
\* endpoint E2 are the requests of a user, in whatever way their steps
\* interleave, once both have returned success the stored list contains S and
\* holds no subscription with endpoint E2: the unsubscribe request does not
\* erase the subscription it was not asked to remove.
C29_UnsubscribeKeepsOthers ==
  \A p \in 1..Len(requests), d \in 1..Len(requests) :
    ( /\ Len(requests) = 2
      /\ requests[p].method = "POST" /\ requests[d].method = "DELETE"
      /\ requests[p].pc = "returned" /\ requests[p].status = 200
      /\ requests[d].pc = "returned" /\ requests[d].status = 200
      /\ requests[p].subscription.endpoint # requests[d].endpoint ) =>
      /\ \E k \in 1..Len(store.subscriptions) :
           store.subscriptions[k] = requests[p].subscription
      /\ \A k \in 1..Len(store.subscriptions) :
           store.subscriptions[k].endpoint # requests[d].endpoint

====
